---- MODULE Spec2Model ----
(***************************************************************************)
(* Sign-In With Neo (SIWN) edge function: GET /nonce and POST /login over  *)
(* the tables private.auth_nonces and private.user_wallets and the         *)
(* identity store (auth.admin.createUser / auth.signInWithPassword).       *)
(*                                                                         *)
(* Strings are sequences of tokens; a token is one character or one fixed  *)
(* piece of text (a key word, a uuid, a timestamp).                        *)
(***************************************************************************)
EXTENDS Integers, Sequences, FiniteSets, TLC

\* ------------------------------------------------------------------ bounds
\* nonces GET /nonce may issue in one run
MaxNonces == 2
\* accounts the identity store may create in one run
MaxUsers == 2
\* milliseconds between the two instants of the clock (two nonce lifetimes)
TickMs == 600000

\* longest domain and longest pattern handed to isDomainAllowed directly
MaxDomainLen == 2
MaxPatternLen == 4

\* longest field value and largest chain id of a message built and parsed back
MaxValueLen == 2
MaxChainId == 11

\* --------------------------------------------------------- program constants
NonceTtlMs == 5 * 60 * 1000
PasswordSecretChars == 16

MaxTime == TickMs
Times == {0, MaxTime}

\* ------------------------------------------------------------ string helpers
Undefined == <<"<undefined>">>
\* the time value of an invalid Date, and of a time that is not given
NaN == -1

StartsWith(s, p) == Len(s) >= Len(p) /\ SubSeq(s, 1, Len(p)) = p
EndsWith(s, p) == Len(s) >= Len(p) /\ SubSeq(s, Len(s) - Len(p) + 1, Len(s)) = p
\* JS slice(from) / slice(0, -k) on a string
SliceFrom(s, from) == SubSeq(s, from + 1, Len(s))
SliceTo(s, dropLast) == SubSeq(s, 1, Len(s) - dropLast)

RECURSIVE Split(_, _)
\* JS String.split(sep) for a one-token separator
Split(s, sep) ==
    IF \E i \in 1..Len(s) : s[i] = sep
    THEN LET i == CHOOSE j \in 1..Len(s) :
                      s[j] = sep /\ \A k \in 1..(j - 1) : s[k] # sep
         IN <<SubSeq(s, 1, i - 1)>> \o Split(SubSeq(s, i + 1, Len(s)), sep)
    ELSE <<s>>

RECURSIVE Join(_, _)
\* JS Array.join(sep): an element that is undefined is printed as nothing
Join(parts, sep) ==
    LET first == IF parts[1] = Undefined THEN <<>> ELSE parts[1]
    IN IF Len(parts) = 0 THEN <<>>
       ELSE IF Len(parts) = 1 THEN first
       ELSE first \o <<sep>> \o Join(Tail(parts), sep)

\* The white space and line terminators of ECMAScript (what trim() and the
\* number parsers skip). A character a TLA+ string cannot hold is the token of
\* its code point.
WhiteSpace ==
    {" ", "\t", "\n", "\f", "\r", "", " ", "﻿", " ",
     "U+2000", "U+2001", "U+2002", "U+2003", "U+2004", "U+2005", "U+2006",
     "U+2007", "U+2008", "U+2009", "U+200A", "U+2028", "U+2029", "U+202F",
     "U+205F", "U+3000"}

RECURSIVE TrimStart(_)
\* JS String.trimStart()
TrimStart(s) ==
    IF Len(s) > 0 /\ s[1] \in WhiteSpace THEN TrimStart(Tail(s)) ELSE s
RECURSIVE Trim(_)
\* JS String.trim()
Trim(s) ==
    IF Len(s) > 0 /\ s[Len(s)] \in WhiteSpace THEN Trim(SubSeq(s, 1, Len(s) - 1))
    ELSE TrimStart(s)

\* ------------------------------------------------------------- isDomainAllowed
\* the prefix wildcard compared without its dot
PatternMatchesNoDot(domain, pattern) ==
    IF StartsWith(pattern, <<"*", ".">>)
    THEN EndsWith(domain, SliceFrom(pattern, 2)) \/ domain = SliceFrom(pattern, 2)
    ELSE IF EndsWith(pattern, <<":", "*">>)
    THEN domain = SliceTo(pattern, 2)
         \/ StartsWith(domain, SliceTo(pattern, 2) \o <<":">>)
    ELSE domain = pattern
PatternMatches(domain, pattern) ==
    IF StartsWith(pattern, <<"*", ".">>)
    THEN EndsWith(domain, SliceFrom(pattern, 1)) \/ domain = SliceFrom(pattern, 2)
    ELSE IF EndsWith(pattern, <<":", "*">>)
    THEN domain = SliceTo(pattern, 2)
         \/ StartsWith(domain, SliceTo(pattern, 2) \o <<":">>)
    ELSE domain = pattern

isDomainAllowed(domain, allowedPatterns) ==
    \E i \in 1..Len(allowedPatterns) : PatternMatches(domain, allowedPatterns[i])

\* allowedDomainsEnv.split(",").map((p) => p.trim())
allowedPatterns(env) ==
    LET parts == Split(env, ",")
    IN [i \in 1..Len(parts) |-> Trim(parts[i])]

\* ------------------------------------------------------------------ SIWNMessage
HeaderSuffix == " wants you to sign in with your Neo account:"
KvSep == ": "
NL == "\n"

\* the ISO text of a timestamp, and new Date(text).getTime()
IsoString(t) == <<ToString(t)>>
DateParse(s) ==
    IF \E t \in {0, TickMs, 2 * TickMs} : IsoString(t) = s
    THEN CHOOSE t \in {0, TickMs, 2 * TickMs} : IsoString(t) = s
    ELSE NaN

Digits == <<"0", "1", "2", "3", "4", "5", "6", "7", "8", "9">>
IsDigit(c) == \E d \in 1..10 : Digits[d] = c
DigitVal(c) == (CHOOSE d \in 1..10 : Digits[d] = c) - 1
RECURSIVE ParseDigits(_, _)
ParseDigits(s, acc) ==
    IF Len(s) = 0 \/ ~IsDigit(s[1]) THEN acc
    ELSE ParseDigits(Tail(s), 10 * acc + DigitVal(s[1]))
\* The chain id is a JS number or undefined: the integer n is Num(n), NaN is
\* NotANumber, and neither equals Undefined.
Num(n) == <<"number", n>>
NotANumber == <<"NaN">>
\* parseInt(value, 10): leading white space is skipped, then a sign and the
\* decimal digits are read; NaN when no digit follows
parseInt(s) ==
    LET t == TrimStart(s)
        signed == Len(t) > 0 /\ t[1] \in {"+", "-"}
        digits == IF signed THEN Tail(t) ELSE t
    IN IF Len(digits) = 0 \/ ~IsDigit(digits[1]) THEN NotANumber
       ELSE IF signed /\ t[1] = "-" THEN Num(0 - ParseDigits(digits, 0))
       ELSE Num(ParseDigits(digits, 0))
RECURSIVE DecString(_)
\* the decimal digits of a non-negative integer
DecString(n) ==
    IF n < 10 THEN <<Digits[n + 1]>>
    ELSE DecString(n \div 10) \o <<Digits[(n % 10) + 1]>>
\* `${this.chainId}`
NumString(v) ==
    IF v = Undefined THEN <<"undefined">>
    ELSE IF v = NotANumber THEN <<"NaN">>
    ELSE IF v[2] < 0 THEN <<"-">> \o DecString(0 - v[2])
    ELSE DecString(v[2])

\* `${field}` of a text field: a field that is undefined prints "undefined"
Template(v) == IF v = Undefined THEN <<"undefined">> ELSE v
prepareMessage(m) ==
    LET header == Template(m.domain) \o <<HeaderSuffix>>
        lines == << header,
                    m.address,
                    <<>>,
                    m.statement,
                    <<>>,
                    <<"URI", KvSep>> \o Template(m.uri),
                    <<"Version", KvSep>> \o Template(m.version),
                    <<"Chain ID", KvSep>> \o NumString(m.chainId),
                    <<"Nonce", KvSep>> \o Template(m.nonce),
                    <<"Issued At", KvSep>> \o Template(m.issuedAt) >>
        all == IF m.expirationTime # Undefined /\ m.expirationTime # <<>>
               THEN Append(lines, <<"Expiration Time", KvSep>>
                                    \o Template(m.expirationTime))
               ELSE lines
    IN Join(all, NL)

\* lines[i] of a JS array (0-based), undefined past the end
LineAt(lines, i) == IF i + 1 <= Len(lines) THEN lines[i + 1] ELSE Undefined

RECURSIVE ScanLinesFirstPart(_, _, _)
\* the loop with `const [key, value] = line.split(": ")`: the value is cut at its
\* first ': '
ScanLinesFirstPart(lines, i, params) ==
    IF i >= Len(lines) THEN params
    ELSE LET line == lines[i + 1]
             parts == Split(line, KvSep)
             key == parts[1]
             value == IF Len(parts) >= 2 THEN parts[2] ELSE Undefined
             next ==
                IF line = <<>> THEN params
                ELSE IF key = <<"URI">> THEN [params EXCEPT !.uri = value]
                ELSE IF key = <<"Version">> THEN [params EXCEPT !.version = value]
                ELSE IF key = <<"Chain ID">>
                     THEN [params EXCEPT !.chainId = parseInt(value)]
                ELSE IF key = <<"Nonce">> THEN [params EXCEPT !.nonce = value]
                ELSE IF key = <<"Issued At">> THEN [params EXCEPT !.issuedAt = value]
                ELSE IF key = <<"Expiration Time">>
                     THEN [params EXCEPT !.expirationTime = value]
                ELSE params
         IN ScanLinesFirstPart(lines, i + 1, next)

RECURSIVE ScanLines(_, _, _)
\* the for loop of fromMessage, from 0-based index i
ScanLines(lines, i, params) ==
    IF i >= Len(lines) THEN params
    ELSE LET line == lines[i + 1]
             parts == Split(line, KvSep)
             key == parts[1]
             value == Join(Tail(parts), KvSep)
             next ==
                IF line = <<>> THEN params
                ELSE IF key = <<"URI">> THEN [params EXCEPT !.uri = value]
                ELSE IF key = <<"Version">> THEN [params EXCEPT !.version = value]
                ELSE IF key = <<"Chain ID">>
                     THEN [params EXCEPT !.chainId = parseInt(value)]
                ELSE IF key = <<"Nonce">> THEN [params EXCEPT !.nonce = value]
                ELSE IF key = <<"Issued At">> THEN [params EXCEPT !.issuedAt = value]
                ELSE IF key = <<"Expiration Time">>
                     THEN [params EXCEPT !.expirationTime = value]
                ELSE params
         IN ScanLines(lines, i + 1, next)

\* the line terminators, which "." of a regular expression does not match
LineTerminators == {"\n", "\r", "U+2028", "U+2029"}
\* /^(.+) wants you to sign in with your Neo account:$/
HeaderMatches(line) ==
    /\ Len(line) >= 2 /\ line[Len(line)] = HeaderSuffix
    /\ \A i \in 1..(Len(line) - 1) : line[i] \notin LineTerminators

\* SIWNMessage.fromMessage: [ok |-> FALSE] stands for the thrown Error
fromMessage(message) ==
    LET lines == Split(message, NL)
    IN IF ~HeaderMatches(lines[1])
       THEN [ok |-> FALSE]
       ELSE [ok |-> TRUE,
             siwn |-> ScanLines(lines, 5,
                        [domain |-> SubSeq(lines[1], 1, Len(lines[1]) - 1),
                         address |-> LineAt(lines, 1),
                         statement |-> LineAt(lines, 3),
                         uri |-> Undefined,
                         version |-> Undefined,
                         chainId |-> Undefined,
                         nonce |-> Undefined,
                         issuedAt |-> Undefined,
                         expirationTime |-> Undefined])]

\* validate with the expiry compared by <=: a message is refused at the very
\* instant it expires
validateExpiryInclusive(siwn, opts, clock) ==
    LET now_ == IF opts.time # NaN THEN opts.time ELSE clock
    IN IF opts.domain # Undefined /\ opts.domain # <<>> /\ siwn.domain # opts.domain
       THEN "Domain mismatch"
       ELSE IF opts.nonce # Undefined /\ opts.nonce # <<>> /\ siwn.nonce # opts.nonce
       THEN "Nonce mismatch"
       ELSE IF siwn.expirationTime # Undefined /\ siwn.expirationTime # <<>>
               /\ DateParse(siwn.expirationTime) # NaN
               /\ DateParse(siwn.expirationTime) <= now_
       THEN "Message has expired"
       ELSE IF DateParse(siwn.issuedAt) # NaN /\ DateParse(siwn.issuedAt) > now_
       THEN "Message issue time is in the future"
       ELSE "ok"

\* validate with the issue time checked before the expiration time
validateFutureFirst(siwn, opts, clock) ==
    LET now_ == IF opts.time # NaN THEN opts.time ELSE clock
    IN IF opts.domain # Undefined /\ opts.domain # <<>> /\ siwn.domain # opts.domain
       THEN "Domain mismatch"
       ELSE IF opts.nonce # Undefined /\ opts.nonce # <<>> /\ siwn.nonce # opts.nonce
       THEN "Nonce mismatch"
       ELSE IF DateParse(siwn.issuedAt) # NaN /\ DateParse(siwn.issuedAt) > now_
       THEN "Message issue time is in the future"
       ELSE IF siwn.expirationTime # Undefined /\ siwn.expirationTime # <<>>
               /\ DateParse(siwn.expirationTime) # NaN
               /\ DateParse(siwn.expirationTime) < now_
       THEN "Message has expired"
       ELSE "ok"

\* SIWNMessage.validate(opts): the message of the Error thrown, or "ok".
\* opts.domain and opts.nonce are Undefined when not given; clock is
\* new Date(), used when opts.time is not given.
validate(siwn, opts, clock) ==
    LET now_ == IF opts.time # NaN THEN opts.time ELSE clock
    IN IF opts.domain # Undefined /\ opts.domain # <<>> /\ siwn.domain # opts.domain
       THEN "Domain mismatch"
       ELSE IF opts.nonce # Undefined /\ opts.nonce # <<>> /\ siwn.nonce # opts.nonce
       THEN "Nonce mismatch"
       ELSE IF siwn.expirationTime # Undefined /\ siwn.expirationTime # <<>>
               /\ DateParse(siwn.expirationTime) # NaN
               /\ DateParse(siwn.expirationTime) < now_
       THEN "Message has expired"
       ELSE IF DateParse(siwn.issuedAt) # NaN /\ DateParse(siwn.issuedAt) > now_
       THEN "Message issue time is in the future"
       ELSE "ok"

\* ----------------------------------------------------------------------- crypto
PublicKeys == {<<"K1">>, <<"K2">>}
Addresses == {<<"A1">>, <<"A2">>}
\* new wallet.Account(text).address: the address of a public key; an address
\* given as the text is an account too, with itself as its address
AccountAddress(publicKey) ==
    IF publicKey = <<"K1">> THEN <<"A1">>
    ELSE IF publicKey = <<"K2">> THEN <<"A2">>
    ELSE publicKey

\* getAddressFromPublicKey: [ok |-> FALSE] stands for Error("Invalid public key")
getAddressFromPublicKey(publicKey) ==
    IF publicKey \in PublicKeys \cup Addresses
    THEN [ok |-> TRUE, address |-> AccountAddress(publicKey)]
    ELSE [ok |-> FALSE]

\* magic number + SHA256(prefix + varint length + message bytes); the digest is
\* collision free, so it is kept as the text it was taken of
n3MessageFormat(message) == <<"00000000", "sha256">> \o message

\* the signature the holder of publicKey produces over signHex
WalletSign(signHex, publicKey) == <<"sig">> \o publicKey \o signHex
IsHex(s) == Len(s) > 0 /\ s[1] # "zz"
\* wallet.verify: [threw |-> TRUE] for input that is not hex or not a key
WalletVerify(signHex, signature, publicKey) ==
    IF ~IsHex(signature) \/ publicKey \notin PublicKeys
    THEN [threw |-> TRUE, result |-> FALSE]
    ELSE [threw |-> FALSE, result |-> signature = WalletSign(signHex, publicKey)]

\* a catch block that lets the login through
verifySignatureFailOpen(message, signature, publicKey) ==
    LET v == WalletVerify(n3MessageFormat(message), signature, publicKey)
    IN IF v.threw THEN TRUE ELSE v.result
verifySignature(message, signature, publicKey) ==
    LET v == WalletVerify(n3MessageFormat(message), signature, publicKey)
    IN IF v.threw THEN FALSE ELSE v.result

\* ------------------------------------------------------------------ the state
Procs == {"p1", "p2"}

VARIABLES
    now,                \* the clock, ms
    allowedDomainsEnv,  \* Deno.env ALLOWED_DOMAINS, Undefined when not set
    authSecret,         \* Deno.env WALLET_AUTH_SECRET, Undefined when not set
    auth_nonces,        \* rows of private.auth_nonces
    user_wallets,       \* rows of private.user_wallets
    users,              \* accounts of the identity store
    issued,             \* every nonce row ever stored |-> logins that consumed it
    pending,            \* the nonce rows GET /nonce has sent and the store not yet taken
    conn,               \* the POST /login requests in flight
    resp,               \* the response of the last request that is not a login
    call,               \* a direct call of a library function: <<>> or <<arguments>>
    result              \* what the call returned: <<>> or <<value>>

vars == <<now, allowedDomainsEnv, authSecret, auth_nonces, user_wallets, users,
          issued, pending, conn, resp, call, result>>
\* the state of the edge function, which a direct call does not touch
server == <<now, allowedDomainsEnv, authSecret, auth_nonces, user_wallets, users,
            issued, pending, conn, resp>>

\* crypto.randomUUID(): the k-th uuid drawn
Uuid(k) == <<"n" \o ToString(k)>>
NonceStrings == {Uuid(k) : k \in 1..MaxNonces}

Falsy(s) == s = Undefined \/ s = <<>>

AllowedDomainsValue == <<"*", ".", "e", ",", " ", "l", ":", "*">>
SecretValue == [i \in 1..(PasswordSecretChars + 1) |->
                    IF i <= PasswordSecretChars THEN "s" ELSE "t"]

\* `wallet_${address}@my-app.com` and `neo_${address}_${secret.substring(0, 16)}`
walletEmail(address) == <<"wallet_">> \o address \o <<"@my-app.com">>
walletPassword(address, secret) ==
    <<"neo_">> \o address \o <<"_">>
        \o SubSeq(secret, 1, IF Len(secret) < PasswordSecretChars
                             THEN Len(secret) ELSE PasswordSecretChars)

\* the {status, error} of the Response built at each return statement
ResponseSites ==
    {"address", "store", "fields", "config", "domain", "key", "signature",
     "nonce", "secret", "create", "link", "signin", "not_found",
     "parse", "time", "pubkey"}
ErrorResponses ==
    [site \in ResponseSites |->
        CASE site = "address"   -> [status |-> 400, error |-> "Address is required"]
          [] site = "store"     -> [status |-> 500, error |-> "Failed to generate nonce"]
          [] site = "fields"    -> [status |-> 400, error |-> "Missing required fields"]
          [] site = "config"    -> [status |-> 500, error |-> "Server configuration error"]
          [] site = "domain"    -> [status |-> 400, error |-> "Invalid domain in SIWN message"]
          [] site = "key"       -> [status |-> 400, error |-> "Public key does not match address"]
          [] site = "signature" -> [status |-> 401, error |-> "Invalid signature"]
          [] site = "nonce"     -> [status |-> 401, error |-> "Invalid or expired nonce"]
          [] site = "secret"    -> [status |-> 500, error |-> "Server configuration error"]
          [] site = "create"    -> [status |-> 500, error |-> "Failed to create user account"]
          [] site = "link"      -> [status |-> 500, error |-> "Failed to link wallet to account"]
          [] site = "signin"    -> [status |-> 500, error |-> "Failed to create login session"]
          [] site = "not_found" -> [status |-> 404, error |-> "Not Found"]
          \* the catch block: fromMessage, validate or getAddressFromPublicKey threw
          [] site \in {"parse", "time", "pubkey"}
                                -> [status |-> 401, error |-> "Authentication failed"]]

\* a catch block that answers 400 instead of 401
ErrorResponseCatch400(site) ==
    IF site \in {"parse", "time", "pubkey"}
    THEN [status |-> 400, error |-> "Authentication failed"]
    ELSE ErrorResponses[site]
\* every rejection answered 400
ErrorResponseAll400(site) == [ErrorResponses[site] EXCEPT !.status = 400]
\* the configuration errors answered like a rejected request
ErrorResponseConfig401(site) ==
    IF site \in {"config", "secret"}
    THEN [status |-> 401, error |-> "Authentication failed"]
    ELSE ErrorResponses[site]
\* the signature and nonce rejections folded into one generic message
ErrorResponseGeneric(site) ==
    IF site \in {"signature", "nonce"}
    THEN [status |-> 401, error |-> "Authentication failed"]
    ELSE ErrorResponses[site]
ErrorResponse(site) == ErrorResponses[site]

\* the checks of Verify with the signature check left out
VerifyNoSignature(message, signature, publicKey, env, clock) ==
    IF Falsy(message) \/ Falsy(signature) \/ Falsy(publicKey)
    THEN [failedAt |-> "fields", steps |-> <<>>]
    ELSE LET parsed == fromMessage(message)
         IN IF ~parsed.ok
            THEN [failedAt |-> "parse", steps |-> <<>>]
            ELSE IF Falsy(env)
            THEN [failedAt |-> "config", steps |-> <<>>]
            ELSE IF ~isDomainAllowed(parsed.siwn.domain, allowedPatterns(env))
            THEN [failedAt |-> "domain", steps |-> <<>>]
            ELSE IF validate(parsed.siwn,
                             [domain |-> Undefined, nonce |-> Undefined,
                              time |-> clock], clock) # "ok"
            THEN [failedAt |-> "time", steps |-> <<"domain">>]
            ELSE LET derived == getAddressFromPublicKey(publicKey)
                 IN IF ~derived.ok
                    THEN [failedAt |-> "pubkey", steps |-> <<"domain", "time">>]
                    ELSE IF derived.address # parsed.siwn.address
                    THEN [failedAt |-> "key", steps |-> <<"domain", "time">>]
                    ELSE [failedAt |-> "none",
                          steps |-> <<"domain", "time", "key">>]

\* lines 77-140 of the login handler, run without interruption: the check that
\* rejected the request ("none" when all passed) and the steps passed
Verify(message, signature, publicKey, env, clock) ==
    IF Falsy(message) \/ Falsy(signature) \/ Falsy(publicKey)
    THEN [failedAt |-> "fields", steps |-> <<>>]
    ELSE LET parsed == fromMessage(message)
         IN IF ~parsed.ok
            THEN [failedAt |-> "parse", steps |-> <<>>]
            ELSE IF Falsy(env)
            THEN [failedAt |-> "config", steps |-> <<>>]
            ELSE IF ~isDomainAllowed(parsed.siwn.domain, allowedPatterns(env))
            THEN [failedAt |-> "domain", steps |-> <<>>]
            ELSE IF validate(parsed.siwn,
                             [domain |-> Undefined, nonce |-> Undefined,
                              time |-> clock], clock) # "ok"
            THEN [failedAt |-> "time", steps |-> <<"domain">>]
            ELSE LET derived == getAddressFromPublicKey(publicKey)
                 IN IF ~derived.ok
                    THEN [failedAt |-> "pubkey", steps |-> <<"domain", "time">>]
                    ELSE IF derived.address # parsed.siwn.address
                    THEN [failedAt |-> "key", steps |-> <<"domain", "time">>]
                    ELSE IF ~verifySignature(message, signature, publicKey)
                    THEN [failedAt |-> "signature",
                          steps |-> <<"domain", "time", "key">>]
                    ELSE [failedAt |-> "none",
                          steps |-> <<"domain", "time", "key", "signature">>]

\* a select where the delete should be: the matching row is returned and stays
DeleteNonceKeepsRow(rows, address, nonce, storeOk) ==
    LET hit == {r \in rows : r.address = address /\ r.nonce = nonce}
    IN IF ~storeOk \/ Cardinality(hit) > 1
       THEN [rows |-> rows, data |-> {}, error |-> TRUE]
       ELSE [rows |-> rows, data |-> hit, error |-> FALSE]
\* the delete without .select(): the row is removed and nothing is returned
DeleteNonceNoSelect(rows, address, nonce, storeOk) ==
    LET hit == {r \in rows : r.address = address /\ r.nonce = nonce}
    IN IF ~storeOk \/ Cardinality(hit) > 1
       THEN [rows |-> rows, data |-> {}, error |-> TRUE]
       ELSE [rows |-> rows \ hit, data |-> {}, error |-> FALSE]
\* the delete matching on the nonce alone
DeleteNonceAnyAddress(rows, address, nonce, storeOk) ==
    LET hit == {r \in rows : r.nonce = nonce}
    IN IF ~storeOk \/ Cardinality(hit) > 1
       THEN [rows |-> rows, data |-> {}, error |-> TRUE]
       ELSE [rows |-> rows \ hit, data |-> hit, error |-> FALSE]
\* .delete().match({address, nonce}).select().maybeSingle() on auth_nonces:
\* the table afterwards and the {data, error} answer (data: a set of 0 or 1 rows)
DeleteNonce(rows, address, nonce, storeOk) ==
    LET hit == {r \in rows : r.address = address /\ r.nonce = nonce}
    IN IF ~storeOk \/ Cardinality(hit) > 1
       THEN [rows |-> rows, data |-> {}, error |-> TRUE]
       ELSE [rows |-> rows \ hit, data |-> hit, error |-> FALSE]

\* .select("user_id").eq("address", address).maybeSingle() on user_wallets
SelectWallet(rows, address, storeOk) ==
    LET hit == {r \in rows : r.address = address}
    IN IF ~storeOk \/ Cardinality(hit) > 1
       THEN [data |-> {}, error |-> TRUE]
       ELSE [data |-> hit, error |-> FALSE]

\* user_wallets without the UNIQUE constraint on address
InsertWalletNoUnique(rows, user_id, address, storeOk) ==
    IF ~storeOk
    THEN [rows |-> rows, error |-> TRUE]
    ELSE [rows |-> rows \cup {[user_id |-> user_id, address |-> address]},
          error |-> FALSE]
\* .insert({user_id, address}) on user_wallets: address TEXT NOT NULL UNIQUE
InsertWallet(rows, user_id, address, storeOk) ==
    IF ~storeOk \/ \E r \in rows : r.address = address
    THEN [rows |-> rows, error |-> TRUE]
    ELSE [rows |-> rows \cup {[user_id |-> user_id, address |-> address]},
          error |-> FALSE]

\* a cleanup without the WHERE clause
ExpiredNoncesAll(rows, clock) == rows
\* DELETE FROM private.auth_nonces WHERE expires_at < now()
ExpiredNonces(rows, clock) == {r \in rows : r.expires_at < clock}

\* ------------------------------------------------------------- request inputs
GoodDomain == <<"a", ".", "e">>
BadDomain == <<"x", "e">>
MessageParams ==
    [domain : {GoodDomain, BadDomain},
     address : Addresses,
     statement : {<<"hi">>},
     uri : {<<"u">>},
     version : {<<"1">>},
     chainId : {Num(3)},
     nonce : NonceStrings,
     issuedAt : {IsoString(0), IsoString(MaxTime)},
     expirationTime : {Undefined, IsoString(0), IsoString(TickMs)}]
MalformedMessage == <<"h", "i", NL, "A1">>
\* a challenge of A1 for the first nonce, every field set
PlainParams ==
    [domain |-> GoodDomain, address |-> <<"A1">>, statement |-> <<"hi">>,
     uri |-> <<"u">>, version |-> <<"1">>, chainId |-> Num(3), nonce |-> Uuid(1),
     issuedAt |-> IsoString(0), expirationTime |-> Undefined]
\* challenges with a carriage return in the domain, with an issue time that is
\* no date, and with an expiration time that is no date
OddMessages ==
    {prepareMessage([PlainParams EXCEPT !.domain = <<"a", "\r">> \o GoodDomain]),
     prepareMessage([PlainParams EXCEPT !.issuedAt = <<"x">>]),
     prepareMessage([PlainParams EXCEPT !.expirationTime = <<"x">>])}
Messages ==
    {prepareMessage(m) : m \in MessageParams} \cup OddMessages
        \cup {MalformedMessage, Undefined}
\* the public keys, an address in the place of the key, a text that is neither,
\* and no key
KeyInputs == PublicKeys \cup {<<"A1">>, <<"zz">>, Undefined}
OtherText == <<"o", "t", "h", "e", "r">>
\* signatures by either key over the message or over another text, a string
\* that is not hex, and no signature
SignatureInputs(message) ==
    {WalletSign(n3MessageFormat(message), k) : k \in PublicKeys}
        \cup {WalletSign(n3MessageFormat(OtherText), k) : k \in PublicKeys}
        \cup {<<"zz">>, Undefined}
AddressInputs == Addresses \cup {Undefined, <<>>}
LoginInputs ==
    UNION {{[message |-> m, signature |-> sg, publicKey |-> k] :
                sg \in SignatureInputs(m), k \in KeyInputs} : m \in Messages}

IdleConn ==
    [pc |-> "idle", address |-> Undefined, nonce |-> Undefined,
     steps |-> <<>>, ops |-> <<>>, failedAt |-> "none",
     status |-> 0, error |-> "", session |-> FALSE,
     nonceData |-> {}, walletData |-> {},
     mappedAtLookup |-> FALSE, newUser |-> 0]
NoResp == [status |-> 0, error |-> "", nonce |-> Undefined]

\* return new Response({error}, {status}) at the named return statement
Reject(c, site) ==
    [c EXCEPT !.pc = "done", !.failedAt = site,
              !.status = ErrorResponse(site).status,
              !.error = ErrorResponse(site).error]

\* What LoginStart does with a request depends on the request only through this
\* verdict; requests with the same verdict lead to the same state, and one
\* request of every verdict is enumerated.
VerdictOf(in, env, clock) ==
    LET v == Verify(in.message, in.signature, in.publicKey, env, clock)
    IN [failedAt |-> v.failedAt, steps |-> v.steps,
        address |-> IF v.failedAt = "none"
                    THEN fromMessage(in.message).siwn.address ELSE Undefined,
        nonce |-> IF v.failedAt = "none"
                  THEN fromMessage(in.message).siwn.nonce ELSE Undefined]
VerdictTable ==
    [env \in {Undefined, AllowedDomainsValue}, clock \in Times |->
        [in \in LoginInputs |-> VerdictOf(in, env, clock)]]
\* VerdictOf on one request, read from the table for the requests it holds
Verdict(message, signature, publicKey, env, clock) ==
    LET in == [message |-> message, signature |-> signature,
               publicKey |-> publicKey]
    IN IF in \in LoginInputs /\ env \in {Undefined, AllowedDomainsValue}
          /\ clock \in Times
       THEN VerdictTable[env, clock][in]
       ELSE VerdictOf(in, env, clock)
LoginClasses ==
    [env \in {Undefined, AllowedDomainsValue}, clock \in Times |->
        {CHOOSE in \in LoginInputs : VerdictTable[env, clock][in] = o :
            o \in {VerdictTable[env, clock][i] : i \in LoginInputs}}]

Init ==
    /\ now = 0
    /\ allowedDomainsEnv \in {Undefined, AllowedDomainsValue}
    /\ authSecret \in {Undefined, SecretValue}
    /\ auth_nonces = {}
    /\ user_wallets = {}
    /\ users = {}
    /\ issued = [r \in {} |-> 0]
    /\ pending = {}
    /\ conn = [p \in Procs |-> IdleConn]
    /\ resp = NoResp
    /\ call = <<>>
    /\ result = <<>>

\* ------------------------------------------------------------------ the actions
Tick ==
    /\ now < MaxTime
    /\ now' = now + TickMs
    /\ UNCHANGED <<allowedDomainsEnv, authSecret, auth_nonces, user_wallets,
                   users, issued, pending, conn>>
    /\ resp' = NoResp

\* OPTIONS: the CORS preflight
Options ==
    /\ resp' = [status |-> 200, error |-> "", nonce |-> Undefined]
    /\ UNCHANGED <<now, allowedDomainsEnv, authSecret, pending, auth_nonces, user_wallets,
                   users, issued, conn>>

\* any other path or method
NotFound ==
    /\ resp' = [status |-> ErrorResponse("not_found").status,
                error |-> ErrorResponse("not_found").error, nonce |-> Undefined]
    /\ UNCHANGED <<now, allowedDomainsEnv, authSecret, pending, auth_nonces, user_wallets,
                   users, issued, conn>>

\* the k of the uuid crypto.randomUUID() gives: the first that no row stored
\* or sent carries
FreshUuid ==
    CHOOSE k \in 1..(MaxNonces + 1) :
        /\ \A r \in DOMAIN issued \cup pending : r.nonce # Uuid(k)
        /\ \A j \in 1..(k - 1) : \E r \in DOMAIN issued \cup pending : r.nonce = Uuid(j)

\* GET /nonce without the address check
GetNonceNoCheck(address) ==
    /\ FreshUuid <= MaxNonces
    /\ pending' = pending \cup {[address |-> address, nonce |-> Uuid(FreshUuid),
                                 expires_at |-> now + NonceTtlMs]}
    /\ resp' = NoResp
    /\ UNCHANGED <<now, allowedDomainsEnv, authSecret, auth_nonces, user_wallets,
                   users, issued, conn>>
\* GET /nonce?address=... up to the await of line 47: the address check, the
\* uuid, expires_at from the clock, and the insert sent to the store
GetNonce(address) ==
    IF Falsy(address)
    THEN /\ resp' = [status |-> ErrorResponse("address").status,
                     error |-> ErrorResponse("address").error, nonce |-> Undefined]
         /\ UNCHANGED <<now, allowedDomainsEnv, authSecret, auth_nonces,
                        user_wallets, users, issued, pending, conn>>
    ELSE /\ FreshUuid <= MaxNonces
         /\ pending' = pending \cup {[address |-> address, nonce |-> Uuid(FreshUuid),
                                      expires_at |-> now + NonceTtlMs]}
         /\ resp' = NoResp
         /\ UNCHANGED <<now, allowedDomainsEnv, authSecret, auth_nonces,
                        user_wallets, users, issued, conn>>

\* the rest of GET /nonce, without the look at the error of the insert
StoreNonceIgnoresError(row, storeOk) ==
    /\ row \in pending
    /\ pending' = pending \ {row}
    /\ IF storeOk
       THEN /\ auth_nonces' = auth_nonces \cup {row}
            /\ issued' = issued @@ (row :> 0)
       ELSE UNCHANGED <<auth_nonces, issued>>
    /\ resp' = [status |-> 200, error |-> "", nonce |-> row.nonce]
    /\ UNCHANGED <<now, allowedDomainsEnv, authSecret, user_wallets, users, conn>>
\* an insert that replaces the outstanding nonces of the address
StoreNonceReplaces(row, storeOk) ==
    /\ row \in pending
    /\ pending' = pending \ {row}
    /\ IF storeOk
       THEN /\ auth_nonces' =
                {r \in auth_nonces : r.address # row.address} \cup {row}
            /\ issued' = issued @@ (row :> 0)
            /\ resp' = [status |-> 200, error |-> "", nonce |-> row.nonce]
       ELSE /\ resp' = [status |-> ErrorResponse("store").status,
                        error |-> ErrorResponse("store").error,
                        nonce |-> Undefined]
            /\ UNCHANGED <<auth_nonces, issued>>
    /\ UNCHANGED <<now, allowedDomainsEnv, authSecret, user_wallets, users, conn>>
\* the rest of GET /nonce, lines 47-69: the store takes the insert (or answers
\* with an error) and the handler answers {nonce}, or 500
StoreNonce(row, storeOk) ==
    /\ row \in pending
    /\ pending' = pending \ {row}
    /\ IF storeOk
       THEN /\ auth_nonces' = auth_nonces \cup {row}
            /\ issued' = issued @@ (row :> 0)
            /\ resp' = [status |-> 200, error |-> "", nonce |-> row.nonce]
       ELSE /\ resp' = [status |-> ErrorResponse("store").status,
                        error |-> ErrorResponse("store").error,
                        nonce |-> Undefined]
            /\ UNCHANGED <<auth_nonces, issued>>
    /\ UNCHANGED <<now, allowedDomainsEnv, authSecret, user_wallets, users, conn>>

\* private.cleanup_expired_nonces(), run by an external scheduler
Cleanup ==
    /\ auth_nonces' = auth_nonces \ ExpiredNonces(auth_nonces, now)
    /\ UNCHANGED <<now, allowedDomainsEnv, authSecret, pending, user_wallets, users,
                   issued, conn>>
    /\ resp' = NoResp

\* a login that deletes the nonce named in the message before it runs the checks
LoginStartEagerDelete(p, message, signature, publicKey) ==
    /\ conn[p].pc = "idle"
    /\ LET v == Verify(message, signature, publicKey, allowedDomainsEnv, now)
           parsed == IF Falsy(message) THEN [ok |-> FALSE] ELSE fromMessage(message)
       IN /\ conn' = [conn EXCEPT ![p] =
                IF v.failedAt # "none"
                THEN [Reject(@, v.failedAt) EXCEPT !.steps = v.steps]
                ELSE [@ EXCEPT !.pc = "consume", !.steps = v.steps,
                               !.address = fromMessage(message).siwn.address,
                               !.nonce = fromMessage(message).siwn.nonce]]
          /\ auth_nonces' =
                IF parsed.ok
                THEN {r \in auth_nonces : ~(r.address = parsed.siwn.address
                                            /\ r.nonce = parsed.siwn.nonce)}
                ELSE auth_nonces
    /\ UNCHANGED <<now, allowedDomainsEnv, authSecret, pending, user_wallets, users, issued>>
    /\ resp' = NoResp
\* POST /login up to the first store call: read the body and run the checks
LoginStart(p, message, signature, publicKey) ==
    /\ conn[p].pc = "idle"
    /\ LET v == Verdict(message, signature, publicKey, allowedDomainsEnv, now)
       IN conn' = [conn EXCEPT ![p] =
            IF v.failedAt # "none"
            THEN [Reject(@, v.failedAt) EXCEPT !.steps = v.steps]
            ELSE [@ EXCEPT !.pc = "consume", !.steps = v.steps,
                           !.address = v.address, !.nonce = v.nonce]]
    /\ UNCHANGED <<now, allowedDomainsEnv, authSecret, pending, auth_nonces, user_wallets,
                   users, issued>>
    /\ resp' = NoResp

\* 4. Verify and consume the nonce
ConsumeNonce(p, storeOk) ==
    /\ conn[p].pc = "consume"
    /\ LET d == DeleteNonce(auth_nonces, conn[p].address, conn[p].nonce, storeOk)
           c == [conn[p] EXCEPT !.ops = Append(@, "delete_nonce")]
       IN /\ auth_nonces' = d.rows
          /\ IF d.error \/ d.data = {}
             THEN /\ conn' = [conn EXCEPT ![p] = Reject(c, "nonce")]
                  /\ UNCHANGED issued
             ELSE /\ conn' = [conn EXCEPT ![p] =
                        [c EXCEPT !.pc = "lookup", !.nonceData = d.data,
                                  !.steps = Append(@, "nonce")]]
                  /\ issued' = [r \in DOMAIN issued |->
                                    IF r \in d.data THEN issued[r] + 1 ELSE issued[r]]
    /\ UNCHANGED <<now, allowedDomainsEnv, authSecret, pending, user_wallets, users>>
    /\ resp' = NoResp

\* 5. Check if user already has a mapping, then read WALLET_AUTH_SECRET
LookupWallet(p, storeOk) ==
    /\ conn[p].pc = "lookup"
    /\ LET w == SelectWallet(user_wallets, conn[p].address, storeOk)
           c == [conn[p] EXCEPT !.ops = Append(@, "select_wallet"),
                                !.walletData = w.data,
                                !.mappedAtLookup =
                                    \E r \in user_wallets : r.address = conn[p].address]
       IN conn' = [conn EXCEPT ![p] =
            IF Falsy(authSecret) THEN Reject(c, "secret")
            ELSE IF w.data = {} THEN [c EXCEPT !.pc = "create"]
            ELSE [c EXCEPT !.pc = "signin", !.steps = Append(@, "identity")]]
    /\ UNCHANGED <<now, allowedDomainsEnv, authSecret, pending, auth_nonces, user_wallets,
                   users, issued>>
    /\ resp' = NoResp

\* supabase.auth.admin.createUser({email, password, ...})
CreateUser(p, storeOk) ==
    /\ conn[p].pc = "create"
    /\ LET c == [conn[p] EXCEPT !.ops = Append(@, "create_user")]
           id == Cardinality(users) + 1
       IN IF ~storeOk
          THEN /\ conn' = [conn EXCEPT ![p] = Reject(c, "create")]
               /\ UNCHANGED users
          ELSE /\ id <= MaxUsers
               /\ users' = users \cup
                    {[id |-> id, email |-> walletEmail(conn[p].address),
                      password |-> walletPassword(conn[p].address, authSecret),
                      address |-> conn[p].address]}
               /\ conn' = [conn EXCEPT ![p] = [c EXCEPT !.pc = "link", !.newUser = id]]
    /\ UNCHANGED <<now, allowedDomainsEnv, authSecret, pending, auth_nonces, user_wallets,
                   issued>>
    /\ resp' = NoResp

\* Link wallet to user
LinkWallet(p, storeOk) ==
    /\ conn[p].pc = "link"
    /\ LET ins == InsertWallet(user_wallets, conn[p].newUser, conn[p].address, storeOk)
           c == [conn[p] EXCEPT !.ops = Append(@, "insert_wallet")]
       IN /\ user_wallets' = ins.rows
          /\ conn' = [conn EXCEPT ![p] =
                IF ins.error THEN Reject(c, "link")
                ELSE [c EXCEPT !.pc = "signin", !.steps = Append(@, "identity")]]
    /\ UNCHANGED <<now, allowedDomainsEnv, authSecret, pending, auth_nonces, users,
                   issued>>
    /\ resp' = NoResp

\* 6. Sign in with the wallet-derived credentials to get a session
SignIn(p, storeOk) ==
    /\ conn[p].pc = "signin"
    /\ LET c == [conn[p] EXCEPT !.ops = Append(@, "sign_in")]
           session == storeOk /\ \E u \in users :
                         /\ u.email = walletEmail(conn[p].address)
                         /\ u.password = walletPassword(conn[p].address, authSecret)
       IN conn' = [conn EXCEPT ![p] =
            IF ~session THEN Reject(c, "signin")
            ELSE [c EXCEPT !.pc = "done", !.status = 200, !.session = TRUE,
                           !.steps = Append(@, "session")]]
    /\ UNCHANGED <<now, allowedDomainsEnv, authSecret, pending, auth_nonces, user_wallets,
                   users, issued>>
    /\ resp' = NoResp

\* the response has been sent; the slot takes the next request
Close(p) ==
    /\ conn[p].pc = "done"
    /\ conn' = [conn EXCEPT ![p] = IdleConn]
    /\ UNCHANGED <<now, allowedDomainsEnv, authSecret, pending, auth_nonces, user_wallets,
                   users, issued>>
    /\ resp' = NoResp

\* --------------------------------------------------------------- the schedule
\* Deno.serve calls the handler for every request when it arrives: a request is
\* taken in any state, and the steps of the requests in flight interleave in
\* any order. Two things are the model's book-keeping and no step of the code:
\* a finished login stays in its slot, with its response, until Close hands the
\* response to the client, which is the next step taken; and a login takes the
\* first free slot.
Quiet == \A p \in Procs : conn[p].pc # "done"
FirstFree(p) ==
    /\ conn[p].pc = "idle"
    /\ p = "p2" => conn["p1"].pc # "idle"

\* a request does not touch the direct calls
NoCall == UNCHANGED <<call, result>>

Next ==
    \/ Quiet /\ Tick /\ NoCall
    \/ Quiet /\ Options /\ NoCall
    \/ Quiet /\ NotFound /\ NoCall
    \/ Quiet /\ Cleanup /\ NoCall
    \/ \E address \in AddressInputs : Quiet /\ GetNonce(address) /\ NoCall
    \/ \E row \in pending, storeOk \in BOOLEAN :
          Quiet /\ StoreNonce(row, storeOk) /\ NoCall
    \/ \E p \in Procs : \E in \in LoginClasses[allowedDomainsEnv, now] :
          /\ Quiet
          /\ FirstFree(p)
          /\ LoginStart(p, in.message, in.signature, in.publicKey)
          /\ NoCall
    \/ \E p \in Procs, storeOk \in BOOLEAN : Quiet /\ ConsumeNonce(p, storeOk) /\ NoCall
    \/ \E p \in Procs, storeOk \in BOOLEAN : Quiet /\ LookupWallet(p, storeOk) /\ NoCall
    \/ \E p \in Procs, storeOk \in BOOLEAN : Quiet /\ CreateUser(p, storeOk) /\ NoCall
    \/ \E p \in Procs, storeOk \in BOOLEAN : Quiet /\ LinkWallet(p, storeOk) /\ NoCall
    \/ \E p \in Procs, storeOk \in BOOLEAN : Quiet /\ SignIn(p, storeOk) /\ NoCall
    \/ \E p \in Procs : Close(p) /\ NoCall

Spec == Init /\ [][Next]_vars

TypeOK == now \in Times

\* ------------------------------------------------------------------ the claims
Done(p) == conn[p].pc = "done"
\* the issued rows a login names by its (address, nonce)
NamedRows(c) == {r \in DOMAIN issued : r.address = c.address /\ r.nonce = c.nonce}
\* the login has made its nonce delete call / has got a row back from it
PastConsume(c) == Len(c.ops) >= 1
GotNonce(c) == c.nonceData # {}
IsPrefix(s, t) == Len(s) <= Len(t) /\ SubSeq(t, 1, Len(s)) = s
LoginSteps ==
    <<"domain", "time", "key", "signature", "nonce", "identity", "session">>

\* C1: nonce single-use. No issued nonce row is consumed by more than one login,
\* and a login that reaches the nonce step with an (address, nonce) whose row an
\* earlier login has consumed is answered 401 "Invalid or expired nonce" and
\* leaves the nonce table as it was.
C1_NonceSingleUse ==
    /\ [](\A r \in DOMAIN issued : issued[r] <= 1)
    /\ [][\A p \in Procs :
            (/\ conn[p].pc = "consume"
             /\ conn'[p].pc # "consume"
             /\ \E r \in NamedRows(conn[p]) : issued[r] >= 1)
            => /\ conn'[p].pc = "done"
               /\ conn'[p].status = 401
               /\ conn'[p].error = "Invalid or expired nonce"
               /\ auth_nonces' = auth_nonces]_vars
\* a login rejected at the nonce step for a nonce an earlier login consumed
C1_Witness ==
    \E p \in Procs :
        /\ Done(p) /\ conn[p].failedAt = "nonce"
        /\ \E r \in NamedRows(conn[p]) : issued[r] = 1

\* C2: an issued nonce past its expiry is never consumable: no login gets past
\* nonce consumption with a row whose expires_at is earlier than the time of the
\* delete call.
C2_ExpiredNeverConsumable ==
    [][\A p \in Procs :
            (conn[p].pc = "consume" /\ conn'[p].pc = "lookup")
            => \A r \in conn'[p].nonceData : ~(r.expires_at < now)]_vars

\* C3: of two logins in flight that carry the same (address, nonce) and have both
\* made their nonce delete call, at most one got the row and went on; one that
\* did not get it is answered 401 at the nonce step.
C3_ConcurrentConsume ==
    \A p, q \in Procs :
        (/\ p # q
         /\ PastConsume(conn[p]) /\ PastConsume(conn[q])
         /\ conn[p].address = conn[q].address /\ conn[p].nonce = conn[q].nonce)
        => /\ ~(GotNonce(conn[p]) /\ GotNonce(conn[q]))
           /\ ~GotNonce(conn[q])
                => (Done(q) /\ conn[q].failedAt = "nonce" /\ conn[q].status = 401)
\* one login went on with the row while the other, with the same (address,
\* nonce), was rejected at the nonce step
C3_Witness ==
    \E p, q \in Procs :
        /\ p # q
        /\ conn[p].address = conn[q].address /\ conn[p].nonce = conn[q].nonce
        /\ GotNonce(conn[p]) /\ conn[p].pc = "lookup"
        /\ Done(q) /\ conn[q].failedAt = "nonce" /\ NamedRows(conn[q]) # {}

\* C4: a login answered 200 has passed, in this order and each once, the domain
\* check, the time validation, the key/address check, the signature check, the
\* nonce consumption, the identity resolution and the sign-in; at no time has a
\* login passed a step without having passed every earlier one.
C4_StepOrder ==
    \A p \in Procs :
        /\ IsPrefix(conn[p].steps, LoginSteps)
        /\ conn[p].status = 200 => conn[p].steps = LoginSteps
C4_Witness == \E p \in Procs : Done(p) /\ conn[p].status = 200 /\ conn[p].session

\* C5 as claimed: a login whose message fails the structural parse is answered
\* 400.
C5_ParseFailureIs400 ==
    \A p \in Procs : (Done(p) /\ conn[p].failedAt = "parse") => conn[p].status = 400
\* C5 as amended: a login that carries all three fields and whose message fails
\* the structural parse is answered 401 "Authentication failed" by the catch
\* block, before any check has passed and without any store call.
C5_ParseFailureIs401 ==
    \A p \in Procs :
        (Done(p) /\ conn[p].failedAt = "parse")
        => /\ conn[p].status = 401
           /\ conn[p].error = "Authentication failed"
           /\ conn[p].steps = <<>> /\ conn[p].ops = <<>>
C5_Witness == \E p \in Procs : Done(p) /\ conn[p].failedAt = "parse"

\* C6: the failing check determines the status: a missing field, a domain
\* outside the allow-list and a key/address mismatch are answered 400; a false
\* signature verification and an unmatched nonce are answered 401.
C6_StatusByCheck ==
    \A p \in Procs :
        Done(p) =>
            /\ conn[p].failedAt \in {"fields", "domain", "key"} => conn[p].status = 400
            /\ conn[p].failedAt = "signature"
                => (conn[p].status = 401 /\ conn[p].steps = <<"domain", "time", "key">>)
            /\ conn[p].failedAt = "nonce"
                => (conn[p].status = 401 /\ ~GotNonce(conn[p])
                    /\ conn[p].ops = <<"delete_nonce">>)
C6_Witness ==
    \E p \in Procs : Done(p) /\ conn[p].failedAt = "signature" /\ conn[p].status = 401

\* C7 as claimed: a login carrying all three fields, handled while the allow-list
\* or the secret is absent, ends in 500.
C7_MissingConfigAlways500 ==
    \A p \in Procs :
        (/\ Done(p) /\ conn[p].failedAt # "fields"
         /\ (Falsy(allowedDomainsEnv) \/ Falsy(authSecret)))
        => conn[p].status = 500
\* C7 as amended: with the allow-list absent, a login carrying all three fields
\* whose message parses ends in 500; with the secret absent, a login that has
\* got past nonce consumption ends in 500. (A login rejected earlier ends in
\* the 400 or 401 of the check that rejected it.)
C7_MissingConfig500WhenReached ==
    \A p \in Procs :
        Done(p) =>
            /\ (Falsy(allowedDomainsEnv) /\ conn[p].failedAt \notin {"fields", "parse"})
                => (conn[p].status = 500 /\ conn[p].failedAt = "config")
            /\ (Falsy(authSecret) /\ GotNonce(conn[p]))
                => (conn[p].status = 500 /\ conn[p].failedAt = "secret")
C7_Witness ==
    \E p \in Procs :
        /\ Done(p) /\ Falsy(authSecret) /\ GotNonce(conn[p])
        /\ conn[p].failedAt = "secret"

\* C8 as claimed: the response to a key/address mismatch and the response to an
\* unmatched nonce are the response to a bad signature.
C8_OneGenericResponse ==
    \A p \in Procs :
        (Done(p) /\ conn[p].failedAt \in {"key", "signature", "nonce"})
        => /\ conn[p].status = ErrorResponses["signature"].status
           /\ conn[p].error = ErrorResponses["signature"].error
\* C8 as amended: each of the three rejections has its own fixed response, 400
\* "Public key does not match address", 401 "Invalid signature" and 401 "Invalid
\* or expired nonce", so the client can tell which check failed; the response
\* says nothing else, and a nonce rejection is the same whatever its cause.
C8_FixedResponsePerCheck ==
    \A p \in Procs :
        Done(p) =>
            /\ conn[p].failedAt = "key"
                => <<conn[p].status, conn[p].error>>
                        = <<400, "Public key does not match address">>
            /\ conn[p].failedAt = "signature"
                => <<conn[p].status, conn[p].error>> = <<401, "Invalid signature">>
            /\ conn[p].failedAt = "nonce"
                => <<conn[p].status, conn[p].error>>
                        = <<401, "Invalid or expired nonce">>
\* a nonce rejection for a row that is still in the table (the store call failed)
C8_Witness ==
    \E p \in Procs :
        /\ Done(p) /\ conn[p].failedAt = "nonce"
        /\ NamedRows(conn[p]) \cap auth_nonces # {}

\* C9: the mapping table holds at most one row per address, so an address is
\* bound to at most one account id.
C9_MappingUnique ==
    \A r1, r2 \in user_wallets : r1.address = r2.address => r1 = r2
\* a first-time login could not link its new account: a concurrent first-time
\* login for the same address had linked another one
C9_Witness ==
    \E p \in Procs :
        /\ Done(p) /\ conn[p].failedAt = "link"
        /\ \E r \in user_wallets :
              r.address = conn[p].address /\ r.user_id # conn[p].newUser

\* C10: a login whose mapping lookup is made when a row for its address exists
\* makes no account creation call and no mapping insert.
C10_MappingReused ==
    \A p \in Procs :
        conn[p].mappedAtLookup
        => \A i \in 1..Len(conn[p].ops) :
              conn[p].ops[i] \notin {"create_user", "insert_wallet"}

\* C11 helpers. The login the claim describes, by its request alone: the message
\* is a well-formed challenge for an allow-listed domain, its issue time is not
\* later than the clock (as `new Date(issuedAt) > now` has it: a text that is
\* no date is not later), the key derives the claimed address and the
\* signature is the key holder's signature over the message.
ClaimedLogin(in, env, clock) ==
    /\ ~Falsy(in.message) /\ ~Falsy(in.signature) /\ ~Falsy(in.publicKey)
    /\ ~Falsy(env)
    /\ fromMessage(in.message).ok
    /\ LET siwn == fromMessage(in.message).siwn
       IN /\ isDomainAllowed(siwn.domain, allowedPatterns(env))
          /\ ~(DateParse(siwn.issuedAt) # NaN /\ DateParse(siwn.issuedAt) > clock)
          /\ in.publicKey \in PublicKeys
          /\ AccountAddress(in.publicKey) = siwn.address
          /\ in.signature = WalletSign(n3MessageFormat(in.message), in.publicKey)
\* the same, with an expiration time that, when present, is not earlier than
\* the clock (`new Date(expirationTime) < now`: a text that is no date is not
\* earlier)
UnexpiredLogin(in, env, clock) ==
    /\ ClaimedLogin(in, env, clock)
    /\ LET e == fromMessage(in.message).siwn.expirationTime
       IN ~(~Falsy(e) /\ DateParse(e) # NaN /\ DateParse(e) < clock)
\* the requests of each kind, per allow-list and clock
ClaimedLogins ==
    [env \in {Undefined, AllowedDomainsValue}, clock \in Times |->
        {in \in LoginInputs : ClaimedLogin(in, env, clock)}]
UnexpiredLogins ==
    [env \in {Undefined, AllowedDomainsValue}, clock \in Times |->
        {in \in LoginInputs : UnexpiredLogin(in, env, clock)}]
\* what the checks of lines 77-140 make of the requests of each kind
ClaimedVerdicts ==
    [env \in {Undefined, AllowedDomainsValue}, clock \in Times |->
        {VerdictTable[env, clock][in] : in \in ClaimedLogins[env, clock]}]
UnexpiredVerdicts ==
    [env \in {Undefined, AllowedDomainsValue}, clock \in Times |->
        {VerdictTable[env, clock][in] : in \in UnexpiredLogins[env, clock]}]
\* slot p after LoginStart on a request with verdict v
StartOutcome(p, v) ==
    IF v.failedAt # "none"
    THEN [Reject(conn[p], v.failedAt) EXCEPT !.steps = v.steps]
    ELSE [conn[p] EXCEPT !.pc = "consume", !.steps = v.steps,
                         !.address = v.address, !.nonce = v.nonce]
HasMapping(address) == \E r \in user_wallets : r.address = address
\* the store calls of a login in which the store did not fail: each takes the
\* login one step on, the last one to 200 with a session
StoreStepsSucceed(p) ==
    /\ (ConsumeNonce(p, TRUE) /\ NamedRows(conn[p]) \cap auth_nonces # {})
            => (conn'[p].pc = "lookup" /\ auth_nonces' # auth_nonces)
    /\ CreateUser(p, TRUE) => conn'[p].pc = "link"
    /\ (LinkWallet(p, TRUE) /\ ~HasMapping(conn[p].address))
            => /\ conn'[p].pc = "signin"
               /\ Cardinality(user_wallets') = Cardinality(user_wallets) + 1
    /\ SignIn(p, TRUE)
            => (conn'[p].pc = "done" /\ conn'[p].status = 200 /\ conn'[p].session)
\* the calls of a login answered 200: with a new mapping, or reusing one
FirstLoginOps ==
    <<"delete_nonce", "select_wallet", "create_user", "insert_wallet", "sign_in">>
LaterLoginOps == <<"delete_nonce", "select_wallet", "sign_in">>
MappingOnSuccess ==
    \A p \in Procs :
        conn[p].status = 200
        => /\ conn[p].session
           /\ Cardinality({r \in user_wallets : r.address = conn[p].address}) = 1
           /\ IF conn[p].mappedAtLookup
              THEN conn[p].ops = LaterLoginOps
              ELSE conn[p].ops = FirstLoginOps

\* C11 as claimed: when no store call fails, a login with an allow-listed domain,
\* issuedAt not in the future, a key deriving the claimed address, a valid
\* signature and a fresh nonce passes every step and ends 200 with a session.
C11_EndToEndAsClaimed ==
    [][\A p \in Procs : conn'[p].pc # conn[p].pc =>
        /\ (conn[p].pc = "idle" /\ conn'[p].pc # "consume")
              => \A v \in ClaimedVerdicts[allowedDomainsEnv, now] :
                    conn'[p] # StartOutcome(p, v)
        /\ LookupWallet(p, TRUE) => conn'[p].pc \in {"create", "signin"}
        /\ StoreStepsSucceed(p)]_vars
\* C11 as amended: the same for a login whose expiration time, when present, has
\* not passed, handled while the credential secret is set. The first such login
\* for an address makes one mapping row; one that finds a mapping goes straight
\* to the sign-in and makes no account and no mapping.
C11_EndToEndSuccess ==
    /\ []MappingOnSuccess
    /\ [][\A p \in Procs : conn'[p].pc # conn[p].pc =>
        /\ (conn[p].pc = "idle" /\ conn'[p].pc # "consume")
              => \A v \in UnexpiredVerdicts[allowedDomainsEnv, now] :
                    conn'[p] # StartOutcome(p, v)
        /\ (LookupWallet(p, TRUE) /\ ~Falsy(authSecret))
              => conn'[p].pc = (IF HasMapping(conn[p].address)
                                THEN "signin" ELSE "create")
        /\ StoreStepsSucceed(p)]_vars
\* a second login for an address, answered 200 on the mapping the first one made
C11_Witness ==
    \E p \in Procs :
        /\ Done(p) /\ conn[p].status = 200 /\ conn[p].session
        /\ conn[p].ops = LaterLoginOps
        /\ \E u \in users : u.address = conn[p].address

\* C12: GET /nonce whose address parameter is absent or empty is answered 400
\* "Address is required", with no nonce, sends nothing to the store and leaves
\* the nonce table as it was; no other request gets that answer.
C12_NonceNeedsAddress ==
    [][/\ \A address \in {Undefined, <<>>} :
            GetNonce(address)
            => /\ resp'.status = 400 /\ resp'.error = "Address is required"
               /\ resp'.nonce = Undefined
               /\ auth_nonces' = auth_nonces /\ pending' = pending
       /\ resp'.status = 400
            => /\ \E address \in {Undefined, <<>>} : GetNonce(address)
               /\ auth_nonces' = auth_nonces]_vars
\* the 400 of GET /nonce, given while the table holds a nonce and a login is
\* between two of its store calls
C12_Witness ==
    /\ resp.status = 400 /\ resp.error = "Address is required"
    /\ auth_nonces # {}
    /\ \E p \in Procs : conn[p].pc \notin {"idle", "done"}

\* C13: GET /nonce with an address answers 200 with a nonce exactly when the
\* record was stored. The handler sends one record (address, a fresh non-empty
\* nonce, request time + 5 minutes) to the store; when the store takes it the
\* table has gained that one record and the answer is 200 with its nonce; when
\* the insert fails the answer is 500 without a nonce and the table is as it
\* was. No other step answers with a nonce.
C13_NonceIffStored ==
    [][/\ \A address \in Addresses :
            GetNonce(address)
            => /\ auth_nonces' = auth_nonces
               /\ \E r \in pending' :
                    /\ r \notin pending /\ pending' = pending \cup {r}
                    /\ r.address = address
                    /\ r.nonce # Undefined /\ Len(r.nonce) > 0
                    /\ r.expires_at = now + 5 * 60 * 1000
       /\ \A row \in pending :
            /\ StoreNonce(row, TRUE)
                => /\ resp'.status = 200 /\ resp'.nonce = row.nonce
                   /\ Cardinality(auth_nonces') = Cardinality(auth_nonces) + 1
                   /\ auth_nonces' \ auth_nonces = {row}
            /\ StoreNonce(row, FALSE)
                => /\ resp'.status = 500 /\ resp'.error = "Failed to generate nonce"
                   /\ resp'.nonce = Undefined
                   /\ auth_nonces' = auth_nonces
       /\ resp'.nonce # Undefined
            => \E row \in pending :
                  /\ row.nonce = resp'.nonce /\ resp'.status = 200
                  /\ row \notin auth_nonces /\ auth_nonces' = auth_nonces \cup {row}]_vars
\* a nonce asked for at the first instant of the clock, stored and answered at
\* the later one, next to an earlier nonce of the same address
C13_Witness ==
    /\ resp.status = 200 /\ resp.nonce # Undefined
    /\ now = MaxTime
    /\ \E r \in auth_nonces :
          /\ r.nonce = resp.nonce /\ r.expires_at = NonceTtlMs
          /\ \E r2 \in auth_nonces : r2.address = r.address /\ r2.nonce # r.nonce

\* ------------------------------------------------------ direct library calls
\* The library functions are exported and called directly (as the tests do); a
\* direct call leaves the edge function and its stores alone.
ServerIdle ==
    /\ now = 0
    /\ allowedDomainsEnv = AllowedDomainsValue
    /\ authSecret = SecretValue
    /\ auth_nonces = {}
    /\ user_wallets = {}
    /\ users = {}
    /\ issued = [r \in {} |-> 0]
    /\ pending = {}
    /\ conn = [p \in Procs |-> IdleConn]
    /\ resp = NoResp

\* isDomainAllowed(domain, allowedPatterns) on every domain and pattern up to
\* the bounds, the pattern alone or next to a literal pattern, and on no pattern
HostChars == {"*", ".", ":", "e"}
HostStrings(n) == UNION {[1..k -> HostChars] : k \in 0..n}
LiteralPattern == <<"e", "e", "e">>
PatternLists ==
    {<<>>} \cup UNION {{<<pt>>, <<pt, LiteralPattern>>, <<LiteralPattern, pt>>} :
                            pt \in HostStrings(MaxPatternLen)}
DomainInit ==
    /\ ServerIdle
    /\ call \in [domain : HostStrings(MaxDomainLen) \cup {LiteralPattern},
                  patterns : PatternLists]
    /\ result = <<>>
CallIsDomainAllowed ==
    /\ result = <<>>
    /\ result' = <<isDomainAllowed(call.domain, call.patterns)>>
    /\ UNCHANGED <<call, server>>
DomainSpec == DomainInit /\ [][CallIsDomainAllowed]_vars

\* the three pattern forms as the claim words them
IsPrefixWildcard(pt) == Len(pt) >= 2 /\ pt[1] = "*" /\ pt[2] = "."
IsPortWildcard(pt) == Len(pt) >= 2 /\ pt[Len(pt) - 1] = ":" /\ pt[Len(pt)] = "*"
WildcardSuffix(pt) == SubSeq(pt, 3, Len(pt))
WildcardHost(pt) == SubSeq(pt, 1, Len(pt) - 2)
MatchesPrefixWildcard(d, pt) ==
    EndsWith(d, <<".">> \o WildcardSuffix(pt)) \/ d = WildcardSuffix(pt)
MatchesPortWildcard(d, pt) ==
    d = WildcardHost(pt) \/ StartsWith(d, WildcardHost(pt) \o <<":">>)

\* C14 as claimed: isDomainAllowed is true iff some pattern is '*.S' with the
\* domain ending in '.S' or equal to S, or is 'X:*' with the domain equal to X or
\* starting with 'X:', or is of neither form and equal to the domain.
C14_DomainAllowedAsClaimed ==
    result # <<>> =>
        (result[1] <=>
            \E i \in 1..Len(call.patterns) :
                LET pt == call.patterns[i]
                IN \/ IsPrefixWildcard(pt) /\ MatchesPrefixWildcard(call.domain, pt)
                   \/ IsPortWildcard(pt) /\ MatchesPortWildcard(call.domain, pt)
                   \/ /\ ~IsPrefixWildcard(pt) /\ ~IsPortWildcard(pt)
                      /\ call.domain = pt)
\* C14 as amended: the same, where a pattern that begins with '*.' is a prefix
\* wildcard only, also when it ends with ':*'. A domain that ends with S without
\* the dot is rejected, and so is every domain when there is no pattern.
C14_DomainAllowed ==
    result # <<>> =>
        /\ result[1] <=>
            \E i \in 1..Len(call.patterns) :
                LET pt == call.patterns[i]
                IN \/ IsPrefixWildcard(pt) /\ MatchesPrefixWildcard(call.domain, pt)
                   \/ /\ ~IsPrefixWildcard(pt) /\ IsPortWildcard(pt)
                      /\ MatchesPortWildcard(call.domain, pt)
                   \/ /\ ~IsPrefixWildcard(pt) /\ ~IsPortWildcard(pt)
                      /\ call.domain = pt
        /\ call.patterns = <<>> => ~result[1]
\* 'ee' against '*.e': ends with the suffix but not with the dot before it
C14_Witness ==
    /\ call.domain = <<"e", "e">>
    /\ call.patterns = << <<"*", ".", "e">> >>
    /\ result = <<FALSE>>

\* new SIWNMessage(params).prepareMessage() parsed back by fromMessage: one field
\* at a time takes every value up to the bound (single-line text that may hold
\* ': ' and the key words), with every chain id and with and without an
\* expiration time
ValueChars == {"a", KvSep, "Nonce"}
FieldValues == UNION {[1..k -> ValueChars] : k \in 1..MaxValueLen}
TextFields ==
    {"domain", "address", "statement", "uri", "version", "nonce", "issuedAt",
     "expirationTime"}
SampleParams ==
    [domain |-> <<"d">>, address |-> <<"A1">>, statement |-> <<"s">>,
     uri |-> <<"u">>, version |-> <<"1">>, chainId |-> Num(3), nonce |-> <<"n">>,
     issuedAt |-> <<"i">>, expirationTime |-> Undefined]
RoundTripInputs ==
    {[[[SampleParams EXCEPT !.expirationTime = x] EXCEPT ![f] = v]
            EXCEPT !.chainId = Num(c)] :
        x \in {Undefined, <<"x">>}, f \in TextFields, v \in FieldValues,
        c \in 0..MaxChainId}
RoundTripInit ==
    /\ ServerIdle
    /\ call \in RoundTripInputs
    /\ result = <<>>
CallRoundTrip ==
    /\ result = <<>>
    /\ result' = <<fromMessage(prepareMessage(call))>>
    /\ UNCHANGED <<call, server>>
RoundTripSpec == RoundTripInit /\ [][CallRoundTrip]_vars

\* C15: the message built from a valid field set parses, and every field of the
\* parsed message equals the field it was built from: values holding ': ' come
\* back whole and an absent expiration time stays absent.
C15_RoundTrip ==
    result # <<>> => (result[1].ok /\ result[1].siwn = call)
\* a uri holding ': ', in a message without an expiration time
C15_Witness ==
    /\ result # <<>>
    /\ call.uri = <<"a", KvSep>> /\ call.chainId = Num(10)
    /\ call.expirationTime = Undefined
    /\ result[1].siwn.uri = call.uri

\* siwn.validate({time}) called directly: every issue time and expiration time
\* among three instants, a text that is no date, no expiration time; the time
\* given or left to the clock
Instants == {0, TickMs, 2 * TickMs}
NoDate == <<"soon">>
ValidateInit ==
    /\ ServerIdle
    /\ call \in [issuedAt : {IsoString(t) : t \in Instants} \cup {NoDate},
                  expirationTime : {IsoString(t) : t \in Instants}
                                        \cup {NoDate, Undefined},
                  time : Instants \cup {NaN},
                  clock : Instants]
    /\ result = <<>>
CallValidate ==
    /\ result = <<>>
    /\ result' = <<validate([SampleParams EXCEPT
                                !.issuedAt = call.issuedAt,
                                !.expirationTime = call.expirationTime],
                            [domain |-> Undefined, nonce |-> Undefined,
                             time |-> call.time],
                            call.clock)>>
    /\ UNCHANGED <<call, server>>
ValidateSpec == ValidateInit /\ [][CallValidate]_vars

\* the validation time, and the two conditions of the claim
ValidationTime == IF call.time # NaN THEN call.time ELSE call.clock
ExpiredAtCall ==
    /\ call.expirationTime \notin {Undefined, NoDate}
    /\ DateParse(call.expirationTime) < ValidationTime
FutureAtCall ==
    call.issuedAt # NoDate /\ DateParse(call.issuedAt) > ValidationTime

\* C16 as claimed: validate fails with 'Message has expired' when the expiration
\* time is present and earlier than the validation time, and with 'Message issue
\* time is in the future' when the issue time is later than it.
C16_ValidateTimeAsClaimed ==
    result # <<>> =>
        /\ ExpiredAtCall => result[1] = "Message has expired"
        /\ FutureAtCall => result[1] = "Message issue time is in the future"
\* C16 as amended: validate fails with 'Message has expired' when the expiration
\* time is present and earlier than the validation time; otherwise it fails
\* with 'Message issue time is in the future' when the issue time is later than
\* the validation time; it passes whenever issue time <= validation time and the
\* expiration time is absent or not earlier, both boundaries included.
C16_ValidateTime ==
    result # <<>> =>
        /\ ExpiredAtCall => result[1] = "Message has expired"
        /\ (FutureAtCall /\ ~ExpiredAtCall)
              => result[1] = "Message issue time is in the future"
        /\ (/\ call.issuedAt # NoDate
            /\ DateParse(call.issuedAt) <= ValidationTime
            /\ \/ call.expirationTime = Undefined
               \/ /\ call.expirationTime # NoDate
                  /\ ValidationTime <= DateParse(call.expirationTime))
              => result[1] = "ok"
\* validation at the instant that is both the issue time and the expiration time
C16_Witness ==
    /\ result = <<"ok">>
    /\ call.time = TickMs
    /\ call.issuedAt = IsoString(TickMs)
    /\ call.expirationTime = IsoString(TickMs)

\* verifySignature called directly and through POST /login, on a challenge for A1
\* or A2 that carries the nonce issued for A1: signatures by either key over the
\* message or over another text, a text that is not hex; as the key a public
\* key, an address, a text that is neither
SignedMessages ==
    {prepareMessage([domain |-> GoodDomain, address |-> a, statement |-> <<"hi">>,
                     uri |-> <<"u">>, version |-> <<"1">>, chainId |-> Num(3),
                     nonce |-> Uuid(1), issuedAt |-> IsoString(0),
                     expirationTime |-> Undefined]) : a \in Addresses}
SignatureRow ==
    [address |-> <<"A1">>, nonce |-> Uuid(1), expires_at |-> NonceTtlMs]
SignatureCalls ==
    UNION {{[message |-> m, signature |-> sg, publicKey |-> k] :
                sg \in SignatureInputs(m) \ {Undefined},
                k \in PublicKeys \cup Addresses \cup {<<"zz">>}} :
            m \in SignedMessages}
\* the state after GET /nonce?address=A1 at time 0
SignatureInit ==
    /\ now = 0
    /\ allowedDomainsEnv = AllowedDomainsValue
    /\ authSecret = SecretValue
    /\ auth_nonces = {SignatureRow}
    /\ user_wallets = {}
    /\ users = {}
    /\ issued = (SignatureRow :> 0)
    /\ pending = {}
    /\ conn = [p \in Procs |-> IdleConn]
    /\ resp = NoResp
    /\ call \in SignatureCalls
    /\ result = <<>>
CallVerifySignature ==
    /\ result = <<>>
    /\ result' =
          <<[threw |-> WalletVerify(n3MessageFormat(call.message),
                                    call.signature, call.publicKey).threw,
             valid |-> verifySignature(call.message, call.signature,
                                       call.publicKey)]>>
    /\ UNCHANGED <<call, server>>
PostLogin ==
    /\ LoginStart("p1", call.message, call.signature, call.publicKey)
    /\ UNCHANGED <<call, result>>
SignatureNext == CallVerifySignature \/ PostLogin
SignatureSpec == SignatureInit /\ [][SignatureNext]_vars

\* the stores as SignatureInit left them
StoresUntouched ==
    /\ auth_nonces = {SignatureRow}
    /\ user_wallets = {} /\ users = {}
\* the signature or the key of the call is not well formed
MalformedCall == ~IsHex(call.signature) \/ call.publicKey \notin PublicKeys
\* the key holder's signature over the message of the call
GenuineCall ==
    /\ call.publicKey \in PublicKeys
    /\ call.signature = WalletSign(n3MessageFormat(call.message), call.publicKey)
\* verifySignature gives a boolean, false whenever verifying raised, true only
\* for the key holder's signature over the message
SignatureGate ==
    result # <<>> =>
        /\ result[1].valid \in BOOLEAN
        /\ result[1].threw => ~result[1].valid
        /\ MalformedCall => ~result[1].valid
        /\ result[1].valid <=> GenuineCall

\* C17 as claimed: verifySignature never throws and folds every exception into
\* false, and a login whose signature or key is not well formed is rejected as
\* an invalid signature without changing stored state.
C17_SignatureGateAsClaimed ==
    /\ SignatureGate
    /\ (conn["p1"].pc # "idle" /\ MalformedCall)
          => /\ conn["p1"].failedAt = "signature"
             /\ conn["p1"].status = 401 /\ conn["p1"].error = "Invalid signature"
             /\ StoresUntouched
\* C17 as amended: verifySignature never throws and folds every exception into
\* false. A login whose key text gives no address is answered 401
\* "Authentication failed" by the catch block and one whose key text gives
\* another address 400, both before the signature check; a login that reaches
\* the signature check with a signature or key that is not well formed, or with
\* a signature that is not the key holder's over the message, is answered 401
\* "Invalid signature". None of them changes stored state.
C17_SignatureGate ==
    /\ SignatureGate
    /\ conn["p1"].pc # "idle" =>
          LET c == conn["p1"]
              derived == getAddressFromPublicKey(call.publicKey)
          IN /\ StoresUntouched
             /\ IF ~derived.ok
                THEN c.failedAt = "pubkey" /\ c.status = 401
                     /\ c.error = "Authentication failed"
                ELSE IF derived.address # fromMessage(call.message).siwn.address
                THEN c.failedAt = "key" /\ c.status = 400
                ELSE IF MalformedCall \/ ~GenuineCall
                THEN c.failedAt = "signature" /\ c.status = 401
                     /\ c.error = "Invalid signature"
                ELSE c.pc = "consume"
\* the address given as the key: the key check passes, verifying raises, and
\* the login is rejected as an invalid signature
C17_Witness ==
    /\ call.publicKey = <<"A1">>
    /\ result # <<>> /\ result[1].threw /\ ~result[1].valid
    /\ conn["p1"].failedAt = "signature" /\ conn["p1"].status = 401

\* ------------------------------------------------- two runs, two secrets
\* One run of the edge function as a function of its state and one step of a
\* request: the state after the step and the Response sent, if the step sends
\* one. A body is the text sent, in tokens.
RECURSIVE TextOf(_)
\* the text of a string of tokens
TextOf(s) == IF Len(s) = 0 THEN "" ELSE s[1] \o TextOf(Tail(s))
\* text.includes(s) on the text of a body
Contains(body, s) ==
    LET text == TextOf(body)
        sub == TextOf(s)
    IN \E i \in 0..(Len(text) - Len(sub)) : SubSeq(text, i + 1, i + Len(sub)) = sub
\* the step sends no Response
Silent == [status |-> 0, body |-> <<>>]
\* JSON.stringify({ error })
ErrorBody(site) ==
    [status |-> ErrorResponse(site).status,
     body |-> <<"{\"error\":\"", ErrorResponse(site).error, "\"}">>]
\* JSON.stringify({ nonce })
NonceBody(nonce) ==
    [status |-> 200, body |-> <<"{\"nonce\":\"">> \o nonce \o <<"\"}">>]
\* a 200 body that carries the account with its password
SessionBodyWithPassword(u, clock) ==
    [status |-> 200,
     body |-> <<"{\"user\":{\"id\":\"", ToString(u.id), "\",\"email\":\"">>
                \o u.email \o <<"\",\"password\":\"">> \o u.password
                \o <<"\",\"user_metadata\":{\"address\":\"">> \o u.address
                \o <<"\",\"login_type\":\"neo_wallet\"}},\"session\":{",
                     "\"access_token\":\"", "access" \o ToString(u.id),
                     "\",\"refresh_token\":\"", "refresh" \o ToString(u.id),
                     "\",\"expires_at\":", ToString(clock \div 1000 + 3600),
                     "}}">>]
\* JSON.stringify({ user: sessionData.user, session: {access_token,
\* refresh_token, expires_at} }): the identity store's user object (id, email,
\* user_metadata) and the tokens and expiry of the session it opened at clock
SessionBody(u, clock) ==
    [status |-> 200,
     body |-> <<"{\"user\":{\"id\":\"", ToString(u.id), "\",\"email\":\"">>
                \o u.email
                \o <<"\",\"user_metadata\":{\"address\":\"">> \o u.address
                \o <<"\",\"login_type\":\"neo_wallet\"}},\"session\":{",
                     "\"access_token\":\"", "access" \o ToString(u.id),
                     "\",\"refresh_token\":\"", "refresh" \o ToString(u.id),
                     "\",\"expires_at\":", ToString(clock \div 1000 + 3600),
                     "}}">>]

\* a POST /login of a run that is not in flight
IdleLogin ==
    [pc |-> "idle", address |-> Undefined, nonce |-> Undefined, newUser |-> 0]
\* the state of one run: clock, configuration, stores, the uuids drawn, the
\* inserts GET /nonce has sent and the logins in flight
RunInit(env, secret) ==
    [now |-> 0, env |-> env, secret |-> secret, auth_nonces |-> {},
     user_wallets |-> {}, users |-> {}, drawn |-> {}, pending |-> {},
     logins |-> [p \in Procs |-> IdleLogin]]
\* the login of slot p returns
EndLogin(st, p, response) ==
    [st |-> [st EXCEPT !.logins[p] = IdleLogin], resp |-> response]

\* GET /nonce?address=... up to the await of line 47; k: the uuid drawn
RunNonce(st, address, k) ==
    IF Falsy(address) THEN [st |-> st, resp |-> ErrorBody("address")]
    ELSE [st |-> [st EXCEPT !.drawn = @ \cup {k},
                            !.pending = @ \cup
                                {[address |-> address, nonce |-> Uuid(k),
                                  expires_at |-> st.now + NonceTtlMs]}],
          resp |-> Silent]
\* the rest of GET /nonce: the store's answer to the insert, and the Response
RunStoreNonce(st, row, storeOk) ==
    IF storeOk
    THEN [st |-> [st EXCEPT !.pending = @ \ {row}, !.auth_nonces = @ \cup {row}],
          resp |-> NonceBody(row.nonce)]
    ELSE [st |-> [st EXCEPT !.pending = @ \ {row}], resp |-> ErrorBody("store")]

\* POST /login up to the first store call. The checks of lines 77-140 are
\* Verify, read from the table of its verdicts.
RunLoginStart(st, p, in) ==
    LET v == VerdictTable[st.env, st.now][in]
    IN IF v.failedAt # "none" THEN [st |-> st, resp |-> ErrorBody(v.failedAt)]
       ELSE [st |-> [st EXCEPT !.logins[p] =
                        [IdleLogin EXCEPT !.pc = "consume", !.address = v.address,
                                          !.nonce = v.nonce]],
             resp |-> Silent]
\* 4. Verify and consume the nonce
RunConsume(st, p, storeOk) ==
    LET d == DeleteNonce(st.auth_nonces, st.logins[p].address,
                         st.logins[p].nonce, storeOk)
        after == [st EXCEPT !.auth_nonces = d.rows]
    IN IF d.error \/ d.data = {} THEN EndLogin(after, p, ErrorBody("nonce"))
       ELSE [st |-> [after EXCEPT !.logins[p].pc = "lookup"], resp |-> Silent]
\* 5. the mapping lookup, then WALLET_AUTH_SECRET
RunLookup(st, p, storeOk) ==
    LET w == SelectWallet(st.user_wallets, st.logins[p].address, storeOk)
    IN IF Falsy(st.secret) THEN EndLogin(st, p, ErrorBody("secret"))
       ELSE [st |-> [st EXCEPT !.logins[p].pc =
                        IF w.data = {} THEN "create" ELSE "signin"],
             resp |-> Silent]
\* supabase.auth.admin.createUser({email, password, ...})
RunCreate(st, p, storeOk) ==
    LET id == Cardinality(st.users) + 1
        address == st.logins[p].address
    IN IF ~storeOk THEN EndLogin(st, p, ErrorBody("create"))
       ELSE [st |-> [st EXCEPT !.users = @ \cup
                            {[id |-> id, email |-> walletEmail(address),
                              password |-> walletPassword(address, st.secret),
                              address |-> address]},
                        !.logins[p].pc = "link", !.logins[p].newUser = id],
             resp |-> Silent]
\* Link wallet to user
RunLink(st, p, storeOk) ==
    LET ins == InsertWallet(st.user_wallets, st.logins[p].newUser,
                            st.logins[p].address, storeOk)
    IN IF ins.error THEN EndLogin(st, p, ErrorBody("link"))
       ELSE [st |-> [st EXCEPT !.user_wallets = ins.rows,
                               !.logins[p].pc = "signin"],
             resp |-> Silent]
\* 6. signInWithPassword({email, password}) and the 200 Response
RunSignIn(st, p, storeOk) ==
    LET address == st.logins[p].address
        found == {u \in st.users :
                    /\ u.email = walletEmail(address)
                    /\ u.password = walletPassword(address, st.secret)}
    IN IF ~storeOk \/ found = {} THEN EndLogin(st, p, ErrorBody("signin"))
       ELSE EndLogin(st, p, SessionBody(CHOOSE u \in found :
                                           \A o \in found : u.id <= o.id,
                                        st.now))
\* the next store call of the login of slot p is answered
RunStep(st, p, storeOk) ==
    CASE st.logins[p].pc = "consume" -> RunConsume(st, p, storeOk)
      [] st.logins[p].pc = "lookup"  -> RunLookup(st, p, storeOk)
      [] st.logins[p].pc = "create"  -> RunCreate(st, p, storeOk)
      [] st.logins[p].pc = "link"    -> RunLink(st, p, storeOk)
      [] st.logins[p].pc = "signin"  -> RunSignIn(st, p, storeOk)

\* any other path or method, and the CORS preflight
RunOther(st, options) ==
    [st |-> st,
     resp |-> IF options THEN [status |-> 200, body |-> <<"ok">>]
              ELSE ErrorBody("not_found")]

\* secrets that are set: one longer than the 16 characters used, one that
\* differs from it in the first character, a short one; none is by chance
\* part of a fixed text of a response (as the letter k is of "ok")
Secrets == {SecretValue, [SecretValue EXCEPT ![1] = "r"], <<"k", "9">>}

\* Two runs of the edge function that differ in the secret only. They are given
\* the same requests, the same uuids, the same store answers and the same
\* schedule: every step is taken by both. call holds the two states and result
\* the two Responses of the last step (Silent when it sent none).
SecretInit ==
    /\ ServerIdle
    /\ \E env \in {Undefined, AllowedDomainsValue} :
       \E s2 \in Secrets \ {SecretValue} :
          call = <<RunInit(env, SecretValue), RunInit(env, s2)>>
    /\ result = <<>>
Both(out) ==
    /\ \A i \in 1..2 : Cardinality(out[i].st.users) <= MaxUsers
    /\ call' = <<out[1].st, out[2].st>>
    /\ result' = <<out[1].resp, out[2].resp>>
    /\ UNCHANGED server
BothTick ==
    /\ call[1].now < MaxTime
    /\ Both([i \in 1..2 |->
                [st |-> [call[i] EXCEPT !.now = @ + TickMs], resp |-> Silent]])
\* private.cleanup_expired_nonces()
BothCleanup ==
    Both([i \in 1..2 |->
            [st |-> [call[i] EXCEPT !.auth_nonces =
                        @ \ ExpiredNonces(@, call[i].now)],
             resp |-> Silent]])
BothNonce ==
    \E address \in AddressInputs, k \in 1..MaxNonces \ call[1].drawn :
        Both([i \in 1..2 |-> RunNonce(call[i], address, k)])
BothStoreNonce ==
    \E row \in call[1].pending, storeOk \in BOOLEAN :
        Both([i \in 1..2 |-> RunStoreNonce(call[i], row, storeOk)])
BothLoginStart ==
    \E p \in Procs, in \in LoginClasses[call[1].env, call[1].now] :
        /\ call[1].logins[p].pc = "idle"
        /\ p = "p2" => call[1].logins["p1"].pc # "idle"
        /\ Both([i \in 1..2 |-> RunLoginStart(call[i], p, in)])
BothStep ==
    \E p \in Procs, storeOk \in BOOLEAN :
        /\ call[1].logins[p].pc # "idle"
        /\ Both([i \in 1..2 |-> RunStep(call[i], p, storeOk)])
BothOther ==
    \E options \in BOOLEAN :
        Both([i \in 1..2 |-> RunOther(call[i], options)])
SecretNext ==
    \/ BothTick
    \/ BothCleanup
    \/ BothNonce
    \/ BothStoreNonce
    \/ BothLoginStart
    \/ BothStep
    \/ BothOther
SecretSpec == SecretInit /\ [][SecretNext]_vars

\* the part of the secret that goes into the passwords
UsedSecret(secret) ==
    SubSeq(secret, 1, IF Len(secret) < PasswordSecretChars
                      THEN Len(secret) ELSE PasswordSecretChars)
\* the secret of run i, the part of it that is used, or a password derived from
\* it is in the text of the run's response
Exposed(i) ==
    \/ Contains(result[i].body, call[i].secret)
    \/ Contains(result[i].body, UsedSecret(call[i].secret))
    \/ \E a \in Addresses :
          Contains(result[i].body, walletPassword(a, call[i].secret))
\* what a run holds besides its secret and the passwords of its accounts
Visible(st) ==
    [[st EXCEPT !.secret = <<>>]
        EXCEPT !.users = {[id |-> u.id, email |-> u.email, address |-> u.address] :
                            u \in st.users}]

\* C18: the credential secret is never exposed in a response: whatever the
\* request and its outcome (200, 400, 401, 404, 500), and whatever steps of
\* other requests, of the clock and of the cleanup come between its store
\* calls, the text of the body holds neither the secret nor a password derived
\* from it, and two runs that differ only in the value of the secret, given the
\* same requests, uuids, store answers and schedule, send the same responses
\* and are at the same point of every request in flight.
C18_SecretNeverExposed ==
    result # <<>> =>
        /\ result[1] = result[2]
        /\ ~Exposed(1) /\ ~Exposed(2)
        /\ Visible(call[1]) = Visible(call[2])
\* two runs whose passwords differ have both answered a login with a session
\* while a second login was in flight, at the later instant of the clock
C18_Witness ==
    /\ result # <<>>
    /\ result[1].status = 200 /\ Contains(result[1].body, <<"access_token">>)
    /\ \E u1 \in call[1].users, u2 \in call[2].users :
          u1.id = u2.id /\ u1.password # u2.password
    /\ \E p \in Procs : call[1].logins[p].pc # "idle"
    /\ call[1].now = MaxTime

\* ------------------------------------------------ the life of a nonce record
\* the rows that leave auth_nonces in a step
Removed == auth_nonces \ auth_nonces'
\* the step is the nonce delete of a login, and the delete returned row r
ConsumedBy(p, r) == conn[p].pc = "consume" /\ conn'[p].nonceData = {r}
\* the step is the cleanup and row r was past its expiry
SweptExpired(r) == conn' = conn /\ r.expires_at < now
\* login p ends in this step, with a failure response
EndsInFailure(p) ==
    conn[p].pc # "done" /\ conn'[p].pc = "done" /\ conn'[p].status # 200
\* the return statements of the login handler after the nonce delete returned a row
AfterConsumeSites == {"secret", "create", "link", "signin"}

\* C19 as claimed: a nonce record leaves the nonce table only through a login
\* that ends successfully (200) or through the cleanup of records whose
\* expires_at is in the past; a login that ends in a failure response leaves the
\* nonce table as it was (it has removed no record), and cleanup never removes
\* an unexpired record.
C19_NonceLifecycleAsClaimed ==
    [][/\ \A r \in Removed : SweptExpired(r) \/ \E p \in Procs : ConsumedBy(p, r)
       /\ \A p \in Procs : EndsInFailure(p) => conn'[p].nonceData = {}]_vars
\* C19 as amended: a nonce record leaves the nonce table only through the nonce
\* delete of a login that named it, made after the request passed every check,
\* or through the cleanup of records whose expires_at is in the past, and
\* cleanup never removes an unexpired record. The record is gone from the delete
\* on, whatever the end of the login: a login that then fails at the secret, the
\* account creation, the link or the sign-in answers 500 and does not put the
\* record back. A login that ends in any other failure has removed no record.
C19_NonceLifecycle ==
    [][/\ \A r \in Removed : SweptExpired(r) \/ \E p \in Procs : ConsumedBy(p, r)
       /\ \A p \in Procs :
            /\ conn'[p].nonceData # {} =>
                  /\ conn'[p].nonceData \cap auth_nonces' = {}
                  /\ IsPrefix(<<"domain", "time", "key", "signature">>,
                              conn'[p].steps)
            /\ EndsInFailure(p) =>
                  IF conn'[p].nonceData # {}
                  THEN /\ conn'[p].failedAt \in AfterConsumeSites
                       /\ conn'[p].status = 500
                  ELSE /\ conn'[p].failedAt \notin AfterConsumeSites
                       /\ (conn[p].pc = "idle" => auth_nonces' = auth_nonces)]_vars
\* a login has consumed its nonce and then ended 500: the record is gone
C19_Witness ==
    \E p \in Procs :
        /\ Done(p) /\ conn[p].status = 500
        /\ conn[p].failedAt \in AfterConsumeSites
        /\ conn[p].nonceData # {} /\ conn[p].nonceData \cap auth_nonces = {}

\* -------------------------------------------- a rejected login, then a valid one
\* the return statements and throws of the login handler before the first
\* store call
PreConsumeSites ==
    {"fields", "parse", "config", "domain", "time", "pubkey", "key", "signature"}
\* the login the holder of A1 sends for the nonce of SignatureRow
ValidLogin ==
    LET m == prepareMessage(
                [domain |-> GoodDomain, address |-> <<"A1">>, statement |-> <<"hi">>,
                 uri |-> <<"u">>, version |-> <<"1">>, chainId |-> Num(3),
                 nonce |-> Uuid(1), issuedAt |-> IsoString(0),
                 expirationTime |-> Undefined])
    IN [message |-> m, signature |-> WalletSign(n3MessageFormat(m), <<"K1">>),
        publicKey |-> <<"K1">>]
\* the message of the request, where it parses, names the nonce of SignatureRow
NamesRow(in) ==
    (~Falsy(in.message) /\ fromMessage(in.message).ok) =>
        /\ fromMessage(in.message).siwn.nonce = SignatureRow.nonce
        /\ fromMessage(in.message).siwn.address \in Addresses
\* the requests that the handler rejects before the first store call at time
\* 0, per value of ALLOWED_DOMAINS
RejectedLogins ==
    [env \in {Undefined, AllowedDomainsValue} |->
        {in \in LoginInputs :
            /\ VerdictTable[env, 0][in].failedAt \in PreConsumeSites
            /\ NamesRow(in)}]
\* After GET /nonce?address=A1, with ALLOWED_DOMAINS set or not, slot p1
\* handles a login that is rejected before the first store call and then slot
\* p2 the wallet holder's login for the same nonce.
RetryInit ==
    /\ now = 0
    /\ allowedDomainsEnv \in {Undefined, AllowedDomainsValue}
    /\ authSecret = SecretValue
    /\ auth_nonces = {SignatureRow}
    /\ user_wallets = {}
    /\ users = {}
    /\ issued = (SignatureRow :> 0)
    /\ pending = {}
    /\ conn = [p \in Procs |-> IdleConn]
    /\ resp = NoResp
    /\ call \in RejectedLogins[allowedDomainsEnv]
    /\ result = <<>>
\* ALLOWED_DOMAINS is set after the rejected login; the handler reads it anew
\* in every request (Deno.env.get at line 93)
Configure ==
    /\ result # <<>>
    /\ allowedDomainsEnv = Undefined
    /\ allowedDomainsEnv' = AllowedDomainsValue
    /\ UNCHANGED <<now, authSecret, auth_nonces, user_wallets, users, issued,
                   pending, conn, resp>>
    /\ NoCall
RejectedLogin ==
    /\ result = <<>>
    /\ LoginStart("p1", call.message, call.signature, call.publicKey)
    /\ result' = <<conn'["p1"].failedAt>>
    /\ UNCHANGED call
LaterLogin ==
    /\ result # <<>>
    /\ LoginStart("p2", ValidLogin.message, ValidLogin.signature, ValidLogin.publicKey)
    /\ NoCall
LaterSteps ==
    \E storeOk \in BOOLEAN :
        /\ \/ ConsumeNonce("p2", storeOk) \/ LookupWallet("p2", storeOk)
           \/ CreateUser("p2", storeOk) \/ LinkWallet("p2", storeOk)
           \/ SignIn("p2", storeOk)
        /\ NoCall
RetryNext == RejectedLogin \/ Configure \/ LaterLogin \/ LaterSteps
RetrySpec == RetryInit /\ [][RetryNext]_vars

\* C20: a POST /login that fails at the missing-field check, the parse, the
\* domain check, the time validation, the key/address check or the signature
\* check (or at the read of ALLOWED_DOMAINS, the one other way the handler
\* ends before its first store call) makes no store write: the nonce table,
\* the mapping table and the accounts of the identity store are as before, and
\* the nonce named in the message is still consumed by a later valid login: a
\* login of the wallet holder sent while ALLOWED_DOMAINS is set passes the
\* checks, and its delete, answered by the store, returns the record. (Sent
\* while ALLOWED_DOMAINS is not set, that login too ends before its first
\* store call and writes nothing.)
C20_RejectedLoginWritesNothing ==
    /\ [](result # <<>> =>
            /\ result[1] \in PreConsumeSites
            /\ conn["p1"].pc = "done" /\ conn["p1"].failedAt = result[1]
            /\ conn["p1"].ops = <<>>
            /\ conn["p2"].pc \in {"idle", "consume"} => StoresUntouched
            /\ conn["p2"].failedAt = "config" =>
                    (StoresUntouched /\ conn["p2"].ops = <<>>))
    /\ [][/\ (result = <<>> /\ result' # <<>>) =>
                UNCHANGED <<auth_nonces, user_wallets, users>>
          /\ (conn["p2"].pc = "idle" /\ conn'["p2"].pc # "idle") =>
                IF Falsy(allowedDomainsEnv)
                THEN conn'["p2"].pc = "done" /\ conn'["p2"].failedAt = "config"
                ELSE conn'["p2"].pc = "consume"
          /\ (conn["p2"].pc = "consume" /\ conn'["p2"].pc # "consume") =>
                \/ conn'["p2"].nonceData = {SignatureRow} /\ conn'["p2"].pc = "lookup"
                \/ ~ConsumeNonce("p2", TRUE)]_vars
\* a login with a signature by another key was rejected, and the later valid
\* login for the same nonce has ended 200
C20_Witness ==
    /\ result = <<"signature">>
    /\ fromMessage(call.message).siwn.nonce = SignatureRow.nonce
    /\ conn["p2"].pc = "done" /\ conn["p2"].status = 200
    /\ conn["p2"].nonceData = {SignatureRow}

\* ------------------------------------------------- no retry, short circuit
\* no operation appears twice in the calls of a login
IssuedOnce(ops) == \A i, j \in 1..Len(ops) : ops[i] = ops[j] => i = j
\* the store answers the call of login p made in this step with an error
StoreCallFails(p) ==
    \/ ConsumeNonce(p, FALSE) \/ LookupWallet(p, FALSE) \/ CreateUser(p, FALSE)
    \/ LinkWallet(p, FALSE) \/ SignIn(p, FALSE)

\* C21: within one POST /login each external operation (nonce delete, mapping
\* lookup, account create, mapping insert, sign-in) is issued at most once, and
\* after the first failing step no further external operation is issued: the
\* step in which a store call fails ends the login; a failed account creation is
\* followed by no mapping insert and no sign-in, a failed mapping insert by no
\* sign-in, and each of these ends in a 500 response.
C21_NoRetryShortCircuit ==
    /\ [](\A p \in Procs :
            /\ IssuedOnce(conn[p].ops)
            /\ conn[p].failedAt = "create" =>
                  /\ conn[p].status = 500
                  /\ conn[p].ops = <<"delete_nonce", "select_wallet", "create_user">>
            /\ conn[p].failedAt = "link" =>
                  /\ conn[p].status = 500
                  /\ conn[p].ops = <<"delete_nonce", "select_wallet", "create_user",
                                     "insert_wallet">>)
    /\ [][\A p \in Procs : conn'[p].pc # conn[p].pc =>
            (StoreCallFails(p) => conn'[p].pc = "done")]_vars

\* ------------------------------------------------ a nonce and its address
\* login p makes its nonce delete in this step
Consumes(p) == conn[p].pc = "consume" /\ conn'[p].pc # "consume"
\* the records that carry the nonce login p names, issued for another address
ForOtherAddress(p) ==
    {r \in auth_nonces : r.nonce = conn[p].nonce /\ r.address # conn[p].address}

\* C22: a nonce is bound to the address it was issued for: the record a login
\* consumes carries the address its message claims; a login whose message
\* claims address B and names a nonce issued for another address A is rejected
\* at the nonce step (401), and the record for A stays in the table.
C22_NonceBoundToAddress ==
    [][\A p \in Procs : Consumes(p) =>
        /\ \A r \in conn'[p].nonceData \cup Removed :
              r.address = conn[p].address /\ r.nonce = conn[p].nonce
        /\ ForOtherAddress(p) # {} =>
              /\ conn'[p].pc = "done" /\ conn'[p].failedAt = "nonce"
              /\ conn'[p].status = 401
              /\ conn'[p].error = "Invalid or expired nonce"
              /\ auth_nonces' = auth_nonces]_vars
\* a login for one address named the nonce issued for the other: it was
\* rejected at the nonce step and the record is still there
C22_Witness ==
    \E p \in Procs :
        /\ Done(p) /\ conn[p].failedAt = "nonce" /\ conn[p].status = 401
        /\ conn[p].ops = <<"delete_nonce">>
        /\ \E r \in auth_nonces :
              r.nonce = conn[p].nonce /\ r.address # conn[p].address

\* ------------------------------------------------ the order of validate's checks
\* validate called twice on one message with one opts, the second call not
\* earlier than the first: every combination of a matching, another or no
\* expected domain and nonce, issue and expiration times around the validation
\* time, the time given in opts or taken from the clock
OrderInit ==
    /\ ServerIdle
    /\ call \in [domain : {GoodDomain, BadDomain},
                  nonce : {Uuid(1), Uuid(2)},
                  issuedAt : {IsoString(t) : t \in Instants} \cup {NoDate},
                  expirationTime : {IsoString(t) : t \in Instants} \cup {Undefined},
                  optsDomain : {Undefined, <<>>, GoodDomain},
                  optsNonce : {Undefined, Uuid(1)},
                  time : {NaN, TickMs},
                  clock : Instants, later : Instants]
    /\ call.clock <= call.later
    /\ result = <<>>
CallValidateAgain ==
    /\ Len(result) < 2
    /\ result' = Append(result,
          validate([SampleParams EXCEPT
                        !.domain = call.domain, !.nonce = call.nonce,
                        !.issuedAt = call.issuedAt,
                        !.expirationTime = call.expirationTime],
                   [domain |-> call.optsDomain, nonce |-> call.optsNonce,
                    time |-> call.time],
                   IF result = <<>> THEN call.clock ELSE call.later))
    /\ UNCHANGED <<call, server>>
OrderSpec == OrderInit /\ [][CallValidateAgain]_vars

\* the four checks, each taken alone, at validation time t
DomainMismatch == ~Falsy(call.optsDomain) /\ call.domain # call.optsDomain
NonceMismatch == ~Falsy(call.optsNonce) /\ call.nonce # call.optsNonce
ExpiredAt(t) ==
    call.expirationTime # Undefined /\ DateParse(call.expirationTime) < t
FutureAt(t) == call.issuedAt # NoDate /\ DateParse(call.issuedAt) > t
\* the error of the earliest failing check in the order domain, nonce, expired,
\* issued in the future
FirstFailing(t) ==
    IF DomainMismatch THEN "Domain mismatch"
    ELSE IF NonceMismatch THEN "Nonce mismatch"
    ELSE IF ExpiredAt(t) THEN "Message has expired"
    ELSE IF FutureAt(t) THEN "Message issue time is in the future"
    ELSE "ok"
\* the validation time of the first and of the second call
TimeOfCall(i) ==
    IF call.time # NaN THEN call.time ELSE IF i = 1 THEN call.clock ELSE call.later

\* C23: validate surfaces the first failing check in the fixed order domain
\* mismatch, nonce mismatch, expired, issued-in-future: when several checks fail
\* for one call the error raised is the earliest in that order (a message both
\* expired and issued in the future fails with 'Message has expired'), and the
\* same inputs (message, opts and validation time) always raise the same error.
C23_FirstFailingCheck ==
    /\ \A i \in 1..Len(result) : result[i] = FirstFailing(TimeOfCall(i))
    /\ (Len(result) = 2 /\ TimeOfCall(1) = TimeOfCall(2)) => result[1] = result[2]
\* a message both expired and issued in the future, with no domain or nonce
\* mismatch, has been validated twice
C23_Witness ==
    /\ Len(result) = 2 /\ result[1] = "Message has expired"
    /\ ~DomainMismatch /\ ~NonceMismatch
    /\ ExpiredAt(TimeOfCall(1)) /\ FutureAt(TimeOfCall(1))

\* ------------------------------------------------ accounts and mapping rows
\* no login is between two of its steps
NoLoginInFlight == \A p \in Procs : conn[p].pc \in {"idle", "done"}
\* an account made by createUser for the address exists
HasAccount(address) == \E u \in users : u.address = address

\* C24: after any sequence of login requests in which individual store calls
\* may fail, an identity-store account created for address A exists iff a
\* mapping row for A exists (so that a later valid login for A finds the store
\* in a state from which it can succeed).
C24_AccountMappingPaired ==
    NoLoginInFlight => \A a \in Addresses : HasAccount(a) <=> HasMapping(a)

\* ------------------------------------------------ issuing a nonce only adds
\* the step is one of GET /nonce
NonceRequest ==
    \/ \E address \in AddressInputs : GetNonce(address)
    \/ \E row \in pending, storeOk \in BOOLEAN : StoreNonce(row, storeOk)
\* the records in the table that login p names
Outstanding(p) == NamedRows(conn[p]) \cap auth_nonces

\* C25: GET /nonce only adds a record: it leaves every nonce record there is
\* (for its address and for others) and the mapping table unchanged and adds at
\* most one record; so outstanding nonces of one address coexist, and each is
\* consumed on its own: the delete of a login that names one, answered by the
\* store, returns and removes that record only, and no record is consumed twice.
C25_IssueOnlyAdds ==
    /\ [](\A r \in DOMAIN issued :
            issued[r] <= 1 /\ (r \in auth_nonces => issued[r] = 0))
    /\ [][/\ NonceRequest =>
                /\ auth_nonces \subseteq auth_nonces'
                /\ Cardinality(auth_nonces' \ auth_nonces) <= 1
                /\ resp'.status = 200 =>
                      \E r \in auth_nonces' \ auth_nonces : r.nonce = resp'.nonce
                /\ UNCHANGED <<user_wallets, users>>
          /\ \A p \in Procs :
                (Consumes(p) /\ Outstanding(p) # {} /\ ConsumeNonce(p, TRUE)) =>
                    /\ conn'[p].nonceData = Outstanding(p)
                    /\ Cardinality(Outstanding(p)) = 1
                    /\ auth_nonces' = auth_nonces \ Outstanding(p)]_vars
\* two nonces were issued for one address; the one issued later has been
\* consumed, once, and the one issued first is still in the table
C25_Witness ==
    \E r1 \in auth_nonces, r2 \in DOMAIN issued :
        /\ r1.address = r2.address
        /\ r1.nonce = Uuid(1) /\ r2.nonce = Uuid(2)
        /\ issued[r2] = 1 /\ r2 \notin auth_nonces
====
